---- MODULE Spec2Model ----
(***************************************************************************)
(* Model of the fixed-role registry of OSSAccessControlService             *)
(* (package ossaccesscontrol): the process-wide maps FixedRoles and        *)
(* FixedRoleGrants, the service's declaration queue `registrations`, and   *)
(* the operations registerFixedRole, DeclareFixedRoles and                 *)
(* RegisterFixedRoles; and of the reads made on that registry by Evaluate, *)
(* GetUserPermissions and GetResourcesMetadata.                            *)
(*                                                                         *)
(* Strings that the code inspects by prefix or by colon-delimited segment  *)
(* (role names, scopes) are sequences of their segments:                   *)
(* "fixed:test:test" is <<"fixed", "test", "test">>.                       *)
(***************************************************************************)
EXTENDS Integers, Sequences, FiniteSets, TLC

VARIABLES
    Cfg,              \* ac.Cfg: the configuration the service was built with
    FixedRoles,       \* accesscontrol.FixedRoles: role name -> RoleDTO
    FixedRoleGrants,  \* accesscontrol.FixedRoleGrants: built-in role -> list of role names
    registrations,    \* ac.registrations: the declared, not yet applied registrations
    ret,              \* the last call made on the service and the error it returned
    granted,          \* history: the (built-in role, role name) pairs that the
                      \* registerFixedRole calls made so far were asked to grant
    named,            \* history: the role names that the registerFixedRole
                      \* calls made so far were asked to save
    store,            \* ac.store: what the resource permission store answers
    threads,          \* the calls in progress on concurrent goroutines: for each
                      \* goroutine, where its call stands and the call's locals
    queryHistory      \* the rows of the query_history table

vars == <<Cfg, FixedRoles, FixedRoleGrants, registrations, ret, granted, named, store,
          threads, queryHistory>>

----------------------------------------------------------------------------
(* Bounds of the model *)

\* role versions range over 1..MaxVersion
MaxVersion == 2

\* the declaration queue holds at most MaxQueue registrations
MaxQueue == 2

----------------------------------------------------------------------------
(* Values the operations are called with *)

RoleGrafanaAdmin == "Grafana Admin"

FixedRolePrefix == "fixed"

\* "fixed:test:test" and "custom:test:test"
RoleNames ==
    { <<"fixed", "test", "test">>, <<"custom", "test", "test">> }

Versions == 1..MaxVersion

\* the permission lists of the role bodies: two bodies that differ
PermissionLists ==
    { << [Action |-> "users:read", Scope |-> <<"users", "self">>] >>,
      << [Action |-> "users:create", Scope |-> <<"users", "*">>] >> }

RoleDTOs ==
    [Name : RoleNames, Version : Versions, Permissions : PermissionLists]

\* grant lists ([]string), one of them naming a built-in role twice and one
\* naming a built-in role that does not exist
GrantLists ==
    { <<>>, <<"Viewer">>, <<"Viewer", "Viewer">>,
      <<"Editor", RoleGrafanaAdmin>>, <<"WrongAdmin">> }

RoleRegistrations == [Role : RoleDTOs, Grants : GrantLists]

\* the registrations the feature modules declare: two versions of one role,
\* a second role ("fixed:test2:test2"), a role whose name lacks the prefix,
\* and a grant to an unknown built-in role
Declarations ==
    { [Role   |-> [Name |-> <<"fixed", "test2", "test2">>, Version |-> 1,
                   Permissions |-> << [Action |-> "users:read", Scope |-> <<"users", "self">>] >>],
       Grants |-> <<"Viewer">>] } \cup
    { [Role   |-> [Name |-> <<"fixed", "test", "test">>, Version |-> 1,
                   Permissions |-> << [Action |-> "users:read", Scope |-> <<"users", "self">>] >>],
       Grants |-> <<"Viewer">>],
      [Role   |-> [Name |-> <<"fixed", "test", "test">>, Version |-> 2,
                   Permissions |-> << [Action |-> "users:create", Scope |-> <<"users", "*">>] >>],
       Grants |-> <<"Editor", RoleGrafanaAdmin>>],
      [Role   |-> [Name |-> <<"custom", "test", "test">>, Version |-> 1,
                   Permissions |-> << [Action |-> "users:read", Scope |-> <<"users", "self">>] >>],
       Grants |-> <<"Viewer">>],
      [Role   |-> [Name |-> <<"fixed", "test", "test">>, Version |-> 1,
                   Permissions |-> << [Action |-> "users:create", Scope |-> <<"users", "*">>] >>],
       Grants |-> <<"WrongAdmin">>] }

\* the argument lists of one DeclareFixedRoles call: none, one or two
Batches ==
    {<<>>} \cup { <<a>> : a \in Declarations }
           \cup { <<a, b>> : a \in Declarations, b \in Declarations }

\* the registrations a lazily loaded module makes after start-up
LateRegistrations ==
    { r \in RoleRegistrations :
          r.Role.Name = <<"fixed", "test", "test">> /\ r.Grants = <<"Viewer", "Viewer">> }

\* the configurations: no configuration, no toggle, the toggle set to true
\* and the toggle set to false
NoToggles == [t \in {} |-> TRUE]

Configurations ==
    { [isNil |-> TRUE, FeatureToggles |-> NoToggles],
      [isNil |-> FALSE, FeatureToggles |-> NoToggles],
      [isNil |-> FALSE, FeatureToggles |-> [t \in {"accesscontrol"} |-> TRUE]],
      [isNil |-> FALSE, FeatureToggles |-> [t \in {"accesscontrol"} |-> FALSE]] }

\* the signed-in users of organisation 1: Viewers, Editors and an Admin,
\* one Viewer a Grafana admin; user 2 is a member of team 7, user 1 of no team
OrgRoles == {"Viewer", "Editor", "Admin"}

User(userId, orgRole, isGrafanaAdmin) ==
    [UserId |-> userId, OrgId |-> 1, OrgRole |-> orgRole,
     IsGrafanaAdmin |-> isGrafanaAdmin,
     Teams |-> IF userId = 2 THEN <<7>> ELSE <<>>]

SignedInUsers ==
    { User(1, "Viewer", FALSE), User(1, "Viewer", TRUE), User(1, "Editor", FALSE),
      User(2, "Editor", FALSE), User(2, "Admin", FALSE) }

\* "users:self", "teams:self", "*"
ScopeUsersSelf == <<"users", "self">>

ScopeTeamsSelf == <<"teams", "self">>

ScopeAll == <<"*">>

\* the fixed roles that the modules register for the reads: a role for
\* Viewers with a self scope and the scope of one resource, a role for
\* Editors with a self-team scope after a self-user scope, a role for Admins
\* with wildcard scopes, and a role for the Grafana admin alone
UsersReader ==
    [Name |-> <<"fixed", "users", "reader">>, Version |-> 1,
     Permissions |-> << [Action |-> "users:read", Scope |-> ScopeUsersSelf],
                        [Action |-> "resources:read", Scope |-> <<"resources", "id", "2">>] >>]

TeamsReader ==
    [Name |-> <<"fixed", "teams", "reader">>, Version |-> 1,
     Permissions |-> << [Action |-> "users:read", Scope |-> ScopeUsersSelf],
                        [Action |-> "teams:read", Scope |-> ScopeTeamsSelf] >>]

ResourcesWriter ==
    [Name |-> <<"fixed", "resources", "writer">>, Version |-> 1,
     Permissions |-> << [Action |-> "resources:write", Scope |-> <<"resources", "*">>],
                        [Action |-> "resources:delete", Scope |-> ScopeAll] >>]

UsersAdmin ==
    [Name |-> <<"fixed", "users", "admin">>, Version |-> 1,
     Permissions |-> << [Action |-> "users:disable", Scope |-> <<"global", "users", "*">>] >>]

ReadRegistrations ==
    { [Role |-> UsersReader, Grants |-> <<"Viewer">>],
      [Role |-> TeamsReader, Grants |-> <<"Editor">>],
      [Role |-> ResourcesWriter, Grants |-> <<"Admin">>],
      [Role |-> UsersAdmin, Grants |-> <<RoleGrafanaAdmin>>] }

\* the evaluators the callers build: EvalPermission(action, scope)
Evaluators ==
    { [Action |-> "users:read", Scope |-> <<"users", "id", "1">>],
      [Action |-> "users:read", Scope |-> ScopeUsersSelf],
      [Action |-> "resources:write", Scope |-> <<"resources", "5">>],
      [Action |-> "resources:write", Scope |-> <<"resources-other", "5">>],
      [Action |-> "users:disable", Scope |-> <<"global", "users", "*">>],
      [Action |-> "resources:action2", Scope |-> <<"resources", "id", "2">>] }

\* every evaluator the properties speak of
AllEvaluators ==
    [Action : {"users:read", "teams:read", "resources:read", "resources:write",
               "resources:delete", "users:disable", "users:create",
               "resources:action1"},
     Scope : { <<"users", "id", "1">>, <<"users", "id", "2">>, ScopeUsersSelf,
               <<"teams", "id", "7">>, <<"resources", "id", "2">>,
               <<"resources", "5">>, <<"resources-other", "5">>,
               <<"resources">>, <<"global", "users", "*">>, ScopeAll }]

\* what the resource permission store holds for the caller: nothing,
\* permissions on resources 1 and 2, or a failure
NoStoredPermissions == [perms |-> <<>>, err |-> "nil"]

StoreContents ==
    { NoStoredPermissions,
      [perms |-> << [Action |-> "resources:action1", Scope |-> <<"resources", "id", "1">>],
                    [Action |-> "resources:action2", Scope |-> <<"resources", "id", "2">>],
                    [Action |-> "resources:action3", Scope |-> <<"resources", "id", "2">>] >>,
       err |-> "nil"],
      [perms |-> <<>>, err |-> "ErrStore"] }

\* the metadata requests: a resource and the IDs asked about
MetadataRequests ==
    { [resource |-> "resources", resourceIDs |-> <<"1", "2", "3">>],
      [resource |-> "resources", resourceIDs |-> <<"2", "2">>],
      [resource |-> "users", resourceIDs |-> <<"1", "2">>] }

\* the goroutines that call the service at the same time, and a goroutine
\* that is in no call
Goroutines == {"g1", "g2"}

Idle == [pc |-> "idle"]

----------------------------------------------------------------------------
(* The service's functions *)

\* IsDisabled: no configuration, or no "accesscontrol" key in the toggles
IsDisabled(cfg) ==
    IF cfg.isNil
    THEN TRUE
    ELSE ~("accesscontrol" \in DOMAIN cfg.FeatureToggles)

\* getUsageMetrics: 0 when IsDisabled, 1 otherwise
getUsageMetrics(cfg) ==
    IF IsDisabled(cfg) THEN 0 ELSE 1

\* the function registerUsageMetrics hands to the usage-statistics service
registerUsageMetrics(cfg) ==
    [m \in {"stats.oss.accesscontrol.enabled.count"} |-> getUsageMetrics(cfg)]

\* saveFixedRole with the comparison > in place of >=: a tie overwrites
saveFixedRoleTieOverwrites(roles, role) ==
    IF role.Name \in DOMAIN roles /\ roles[role.Name].Version > role.Version
    THEN roles
    ELSE [n \in (DOMAIN roles) \cup {role.Name} |->
              IF n = role.Name THEN role ELSE roles[n]]

\* saveFixedRole without the version check: the last writer wins
saveFixedRoleAlwaysOverwrites(roles, role) ==
    [n \in (DOMAIN roles) \cup {role.Name} |->
         IF n = role.Name THEN role ELSE roles[n]]

\* saveFixedRole, on the role map
saveFixedRole(roles, role) ==
    IF role.Name \in DOMAIN roles /\ roles[role.Name].Version >= role.Version
    THEN roles
    ELSE [n \in (DOMAIN roles) \cup {role.Name} |->
              IF n = role.Name THEN role ELSE roles[n]]

\* the inner loop of assignFixedRole never finding the name
alreadyAssignedNever(assignments, name) ==
    FALSE

\* the inner loop of assignFixedRole: is the role name in the list
alreadyAssigned(assignments, name) ==
    \E i \in 1..Len(assignments) : assignments[i] = name

\* the body of assignFixedRole's loop storing a fresh list instead of the
\* appended one
assignOneReplacesList(grants, role, builtInRole) ==
    LET assignments ==
            IF builtInRole \in DOMAIN grants THEN grants[builtInRole] ELSE <<>>
    IN  IF alreadyAssigned(assignments, role.Name)
        THEN grants
        ELSE [b \in (DOMAIN grants) \cup {builtInRole} |->
                  IF b = builtInRole THEN <<role.Name>> ELSE grants[b]]

\* the body of assignFixedRole's loop for one built-in role
assignOne(grants, role, builtInRole) ==
    LET assignments ==
            IF builtInRole \in DOMAIN grants THEN grants[builtInRole] ELSE <<>>
    IN  IF alreadyAssigned(assignments, role.Name)
        THEN grants
        ELSE [b \in (DOMAIN grants) \cup {builtInRole} |->
                  IF b = builtInRole
                  THEN Append(assignments, role.Name)
                  ELSE grants[b]]

\* assignFixedRole, on the grant map: the built-in roles in order
RECURSIVE assignFixedRole(_, _, _)
assignFixedRole(grants, role, builtInRoles) ==
    IF builtInRoles = <<>>
    THEN grants
    ELSE assignFixedRole(assignOne(grants, role, Head(builtInRoles)),
                         role, Tail(builtInRoles))

\* registerFixedRole returning before the grants when the role is not saved
registerFixedRoleSkipsGrants(reg, role, builtInRoles) ==
    IF saveFixedRole(reg.roles, role) = reg.roles
    THEN reg
    ELSE [roles  |-> saveFixedRole(reg.roles, role),
          grants |-> assignFixedRole(reg.grants, role, builtInRoles)]

\* registerFixedRole assigning the role without saving it
registerFixedRoleSkipsSave(reg, role, builtInRoles) ==
    [roles  |-> reg.roles,
     grants |-> assignFixedRole(reg.grants, role, builtInRoles)]

\* registerFixedRole, on the registry [roles, grants]
registerFixedRole(reg, role, builtInRoles) ==
    [roles  |-> saveFixedRole(reg.roles, role),
     grants |-> assignFixedRole(reg.grants, role, builtInRoles)]

\* ValidateFixedRole: the role name starts with "fixed:"
ValidateFixedRole(role) ==
    IF Len(role.Name) >= 2 /\ role.Name[1] = FixedRolePrefix
    THEN "nil"
    ELSE "ErrFixedRolePrefixMissing"

\* the built-in roles a fixed role can be granted to
IsValidBuiltInRole(br) ==
    br \in {"Viewer", "Editor", "Admin", RoleGrafanaAdmin}

\* ValidateBuiltInRoles: every grant target is a built-in role
ValidateBuiltInRoles(builtInRoles) ==
    IF \A i \in 1..Len(builtInRoles) : IsValidBuiltInRole(builtInRoles[i])
    THEN "nil"
    ELSE "ErrInvalidBuiltinRole"

\* the loop of DeclareFixedRoles putting each argument at the front of the queue
RECURSIVE declareLoopPrepends(_, _)
declareLoopPrepends(queue, regs) ==
    IF regs = <<>>
    THEN [queue |-> queue, err |-> "nil"]
    ELSE LET r == Head(regs)
         IN  IF ValidateFixedRole(r.Role) # "nil"
             THEN [queue |-> queue, err |-> ValidateFixedRole(r.Role)]
             ELSE IF ValidateBuiltInRoles(r.Grants) # "nil"
             THEN [queue |-> queue, err |-> ValidateBuiltInRoles(r.Grants)]
             ELSE declareLoopPrepends(<<r>> \o queue, Tail(regs))

\* the loop of DeclareFixedRoles appending each argument before validating it
RECURSIVE declareLoopAppendsUnvalidated(_, _)
declareLoopAppendsUnvalidated(queue, regs) ==
    IF regs = <<>>
    THEN [queue |-> queue, err |-> "nil"]
    ELSE LET r == Head(regs)
         IN  IF ValidateFixedRole(r.Role) # "nil"
             THEN [queue |-> Append(queue, r), err |-> ValidateFixedRole(r.Role)]
             ELSE IF ValidateBuiltInRoles(r.Grants) # "nil"
             THEN [queue |-> Append(queue, r), err |-> ValidateBuiltInRoles(r.Grants)]
             ELSE declareLoopAppendsUnvalidated(Append(queue, r), Tail(regs))

\* the loop of DeclareFixedRoles over its arguments, on the queue: each
\* argument is validated and appended in turn, the first invalid one returns
RECURSIVE declareLoop(_, _)
declareLoop(queue, regs) ==
    IF regs = <<>>
    THEN [queue |-> queue, err |-> "nil"]
    ELSE LET r == Head(regs)
         IN  IF ValidateFixedRole(r.Role) # "nil"
             THEN [queue |-> queue, err |-> ValidateFixedRole(r.Role)]
             ELSE IF ValidateBuiltInRoles(r.Grants) # "nil"
             THEN [queue |-> queue, err |-> ValidateBuiltInRoles(r.Grants)]
             ELSE declareLoop(Append(queue, r), Tail(regs))

\* DeclareFixedRoles without the IsDisabled return
DeclareFixedRolesUnguarded(cfg, queue, regs) ==
    declareLoop(queue, regs)

\* DeclareFixedRoles: the queue and the error it returns
DeclareFixedRoles(cfg, queue, regs) ==
    IF IsDisabled(cfg)
    THEN [queue |-> queue, err |-> "nil"]
    ELSE declareLoop(queue, regs)

\* the Range of RegisterFixedRoles stopping after the first registration
registerAllStopsAfterFirst(reg, queue) ==
    IF queue = <<>>
    THEN reg
    ELSE registerFixedRole(reg, Head(queue).Role, Head(queue).Grants)

\* the Range of RegisterFixedRoles over the queue, on the registry
RECURSIVE registerAll(_, _)
registerAll(reg, queue) ==
    IF queue = <<>>
    THEN reg
    ELSE registerAll(registerFixedRole(reg, Head(queue).Role, Head(queue).Grants),
                     Tail(queue))

\* RegisterFixedRoles: the registry it leaves (it returns no error)
RegisterFixedRoles(cfg, reg, queue) ==
    IF IsDisabled(cfg) THEN reg ELSE registerAll(reg, queue)

\* the pairs a registerFixedRole(role, builtInRoles) call is asked to grant
asked(role, builtInRoles) ==
    { <<builtInRoles[i], role.Name>> : i \in 1..Len(builtInRoles) }

\* the pairs the registrations of a queue ask to grant
askedAll(queue) ==
    UNION { asked(queue[i].Role, queue[i].Grants) : i \in 1..Len(queue) }

\* the registry as a value
Registry == [roles |-> FixedRoles, grants |-> FixedRoleGrants]

\* the service as a value: the registry it reads and its store
Service == [roles |-> FixedRoles, grants |-> FixedRoleGrants, store |-> store]

\* RoleType.Children: the organisation roles that a role includes
Children(orgRole) ==
    IF orgRole = "Admin" THEN <<"Editor", "Viewer">>
    ELSE IF orgRole = "Editor" THEN <<"Viewer">>
    ELSE <<>>

\* GetUserBuiltInRoles leaving out the Grafana admin role
GetUserBuiltInRolesWithoutGrafanaAdmin(user) ==
    <<user.OrgRole>> \o Children(user.OrgRole)

\* GetUserBuiltInRoles: the organisation role, the roles it includes, and
\* "Grafana Admin" for a Grafana admin
GetUserBuiltInRoles(user) ==
    <<user.OrgRole>> \o Children(user.OrgRole)
        \o (IF user.IsGrafanaAdmin THEN <<RoleGrafanaAdmin>> ELSE <<>>)

\* &role.Permissions[i] for every i: pointers to the permissions of a role,
\* none when the registry holds no role of that name
permissionsOf(roles, name) ==
    IF name \notin DOMAIN roles
    THEN <<>>
    ELSE [i \in 1..Len(roles[name].Permissions) |-> [name |-> name, i |-> i]]

\* the inner loop of getFixedPermissions over the role names of one grant list
RECURSIVE permissionsOfAll(_, _)
permissionsOfAll(roles, roleNames) ==
    IF roleNames = <<>>
    THEN <<>>
    ELSE permissionsOf(roles, Head(roleNames)) \o permissionsOfAll(roles, Tail(roleNames))

\* getFixedPermissions reading the grants of the first built-in role only
getFixedPermissionsOfFirstRole(ac, builtinRoles) ==
    IF builtinRoles = <<>> \/ Head(builtinRoles) \notin DOMAIN ac.grants
    THEN <<>>
    ELSE permissionsOfAll(ac.roles, ac.grants[Head(builtinRoles)])

\* getFixedPermissions: pointers to the permissions of the roles granted to
\* the built-in roles, in the order of the built-in roles, of their grant
\* lists and of the permissions
RECURSIVE getFixedPermissions(_, _)
getFixedPermissions(ac, builtinRoles) ==
    IF builtinRoles = <<>>
    THEN <<>>
    ELSE (IF Head(builtinRoles) \in DOMAIN ac.grants
          THEN permissionsOfAll(ac.roles, ac.grants[Head(builtinRoles)])
          ELSE <<>>) \o getFixedPermissions(ac, Tail(builtinRoles))

\* *p: the permission a pointer leads to
Deref(roles, p) == roles[p.name].Permissions[p.i]

\* ScopeResolver.ResolveKeyword on a copy of the permission: "users:self"
\* becomes "users:id:<UserId>", "teams:self" becomes "teams:id:<team>" and
\* fails for a user of no team, any other scope stays
ResolveKeyword(user, permission) ==
    IF permission.Scope = ScopeUsersSelf
    THEN [permission |-> [permission EXCEPT !.Scope = <<"users", "id", ToString(user.UserId)>>],
          err |-> "nil"]
    ELSE IF permission.Scope = ScopeTeamsSelf
    THEN IF user.Teams = <<>>
         THEN [permission |-> permission, err |-> "ErrResolution"]
         ELSE [permission |-> [permission EXCEPT !.Scope = <<"teams", "id", ToString(Head(user.Teams))>>],
               err |-> "nil"]
    ELSE [permission |-> permission, err |-> "nil"]

\* the loop of GetUserPermissions appending the permission unresolved
RECURSIVE resolveAllSkipsResolver(_, _, _, _)
resolveAllSkipsResolver(user, roles, permissions, resolved) ==
    IF permissions = <<>>
    THEN [perms |-> resolved, err |-> "nil", roles |-> roles]
    ELSE resolveAllSkipsResolver(user, roles, Tail(permissions),
                                 Append(resolved, Deref(roles, Head(permissions))))

\* the loop of GetUserPermissions returning what it resolved before the failure
RECURSIVE resolveAllKeepsResolved(_, _, _, _)
resolveAllKeepsResolved(user, roles, permissions, resolved) ==
    IF permissions = <<>>
    THEN [perms |-> resolved, err |-> "nil", roles |-> roles]
    ELSE LET r == ResolveKeyword(user, Deref(roles, Head(permissions)))
         IN  IF r.err # "nil"
             THEN [perms |-> resolved, err |-> r.err, roles |-> roles]
             ELSE resolveAllKeepsResolved(user, roles, Tail(permissions),
                                          Append(resolved, r.permission))

\* the loop of GetUserPermissions resolving through the pointer, so that the
\* resolved scope is written into the role the pointer leads to
RECURSIVE resolveAllInPlace(_, _, _, _)
resolveAllInPlace(user, roles, permissions, resolved) ==
    IF permissions = <<>>
    THEN [perms |-> resolved, err |-> "nil", roles |-> roles]
    ELSE LET p == Head(permissions)
             r == ResolveKeyword(user, Deref(roles, p))
         IN  IF r.err # "nil"
             THEN [perms |-> <<>>, err |-> r.err, roles |-> roles]
             ELSE resolveAllInPlace(user,
                                    [roles EXCEPT ![p.name].Permissions[p.i] = r.permission],
                                    Tail(permissions), Append(resolved, r.permission))

\* the loop of GetUserPermissions: each pointer is dereferenced, the copy is
\* resolved and appended; the first failure returns nil and the error.
\* `roles` is the memory the pointers lead into, which is left as it was.
RECURSIVE resolveAll(_, _, _, _)
resolveAll(user, roles, permissions, resolved) ==
    IF permissions = <<>>
    THEN [perms |-> resolved, err |-> "nil", roles |-> roles]
    ELSE LET r == ResolveKeyword(user, Deref(roles, Head(permissions)))
         IN  IF r.err # "nil"
             THEN [perms |-> <<>>, err |-> r.err, roles |-> roles]
             ELSE resolveAll(user, roles, Tail(permissions),
                             Append(resolved, r.permission))

\* GetUserPermissions resolving through the pointers
GetUserPermissionsInPlace(ac, user) ==
    resolveAllInPlace(user, ac.roles, getFixedPermissions(ac, GetUserBuiltInRoles(user)), <<>>)

\* GetUserPermissions appending what the store holds to the fixed permissions
GetUserPermissionsWithStored(ac, user) ==
    LET got == resolveAll(user, ac.roles,
                          getFixedPermissions(ac, GetUserBuiltInRoles(user)), <<>>)
    IN  IF got.err # "nil" THEN got ELSE [got EXCEPT !.perms = @ \o ac.store.perms]

\* GetUserPermissions: the resolved fixed permissions of the user's built-in
\* roles, the error, and the roles of the registry after the call
GetUserPermissions(ac, user) ==
    resolveAll(user, ac.roles, getFixedPermissions(ac, GetUserBuiltInRoles(user)), <<>>)

\* GroupScopesByAction: action -> the scopes of the permissions with that action
GroupScopesByAction(permissions) ==
    [a \in { permissions[i].Action : i \in 1..Len(permissions) } |->
        { permissions[i].Scope : i \in { j \in 1..Len(permissions) :
                                              permissions[j].Action = a } }]

\* the wildcard taken as one more literal segment
matchLiteral(scope, target) == scope = target

\* the evaluator's scope match, segment by segment: a final "*" of the
\* granted scope stands for the remaining segments of the target
RECURSIVE match(_, _)
match(scope, target) ==
    IF scope = <<>> \/ target = <<>>
    THEN scope = target
    ELSE IF scope = ScopeAll
    THEN TRUE
    ELSE Head(scope) = Head(target) /\ match(Tail(scope), Tail(target))

\* permissionEvaluator.Evaluate returning an error when it finds no match
EvalPermissionDeniedIsError(evaluator, permissions) ==
    LET found == /\ evaluator.Action \in DOMAIN permissions
                 /\ \E scope \in permissions[evaluator.Action] :
                        match(scope, evaluator.Scope)
    IN  [result |-> found, err |-> IF found THEN "nil" ELSE "ErrDenied"]

\* permissionEvaluator.Evaluate: the action is in the index and one of its
\* scopes matches the scope asked for; it returns no error
EvalPermission(evaluator, permissions) ==
    [result |-> /\ evaluator.Action \in DOMAIN permissions
                /\ \E scope \in permissions[evaluator.Action] :
                       match(scope, evaluator.Scope),
     err |-> "nil"]

\* Evaluate: false and the error when GetUserPermissions fails, and
\* otherwise what the evaluator returns on the permissions grouped by action
Evaluate(ac, user, evaluator) ==
    LET got == GetUserPermissions(ac, user)
        res == EvalPermission(evaluator, GroupScopesByAction(got.perms))
    IN  IF got.err # "nil"
        THEN [result |-> FALSE, err |-> got.err, roles |-> got.roles]
        ELSE [result |-> res.result, err |-> res.err, roles |-> got.roles]

\* ResourceStore.GetUserResourcePermissions: what the store holds, or its error
GetUserResourcePermissions(ac, user, resource, resourceIDs) == ac.store

\* GetResourceScope, GetResourceAllScope, GetResourceAllIDScope:
\* "<resource>:id:<id>", "<resource>:*" and "<resource>:id:*"
GetResourceScope(resource, resourceID) == <<resource, "id", resourceID>>

GetResourceAllScope(resource) == <<resource, "*">>

GetResourceAllIDScope(resource) == <<resource, "id", "*">>

\* a fresh metadata map made for every match: result[r] = {p.Action: true}
withActionAlone(result, r, action) ==
    [k \in DOMAIN result \cup {r} |->
        IF k = r THEN [a \in {action} |-> TRUE] ELSE result[k]]

\* metadata[p.Action] = true; result[r] = metadata
withAction(result, r, action) ==
    LET metadata == IF r \in DOMAIN result THEN result[r] ELSE [a \in {} |-> TRUE]
    IN  [k \in DOMAIN result \cup {r} |->
            IF k = r
            THEN [a \in DOMAIN metadata \cup {action} |-> TRUE]
            ELSE result[k]]

\* the inner loop of GetResourcesMetadata: the permissions against one resource ID
RECURSIVE metadataOf(_, _, _, _)
metadataOf(result, resource, r, userPermissions) ==
    IF userPermissions = <<>>
    THEN result
    ELSE LET p == Head(userPermissions)
         IN  metadataOf(IF \/ p.Scope = ScopeAll
                           \/ p.Scope = GetResourceAllScope(resource)
                           \/ p.Scope = GetResourceAllIDScope(resource)
                           \/ p.Scope = GetResourceScope(resource, r)
                        THEN withAction(result, r, p.Action)
                        ELSE result,
                        resource, r, Tail(userPermissions))

\* the outer loop of GetResourcesMetadata making an entry for every ID asked about
RECURSIVE metadataOfAllWithEmpty(_, _, _, _)
metadataOfAllWithEmpty(result, resource, resourceIDs, userPermissions) ==
    IF resourceIDs = <<>>
    THEN result
    ELSE LET r == Head(resourceIDs)
             entry == [k \in DOMAIN result \cup {r} |->
                          IF k \in DOMAIN result THEN result[k] ELSE [a \in {} |-> TRUE]]
         IN  metadataOfAllWithEmpty(metadataOf(entry, resource, r, userPermissions),
                                    resource, Tail(resourceIDs), userPermissions)

\* the outer loop of GetResourcesMetadata over the resource IDs
RECURSIVE metadataOfAll(_, _, _, _)
metadataOfAll(result, resource, resourceIDs, userPermissions) ==
    IF resourceIDs = <<>>
    THEN result
    ELSE metadataOfAll(metadataOf(result, resource, Head(resourceIDs), userPermissions),
                       resource, Tail(resourceIDs), userPermissions)

\* GetResourcesMetadata returning, with the error of the store, the map that
\* the fixed permissions alone give
GetResourcesMetadataKeepsFixed(ac, user, resource, resourceIDs) ==
    LET fixedPermissions == getFixedPermissions(ac, GetUserBuiltInRoles(user))
        stored == GetUserResourcePermissions(ac, user, resource, resourceIDs)
        userPermissions ==
            [i \in 1..Len(fixedPermissions) |-> Deref(ac.roles, fixedPermissions[i])]
                \o stored.perms
    IN  [result |-> metadataOfAll([k \in {} |-> TRUE], resource, resourceIDs,
                                  userPermissions),
         err |-> stored.err, roles |-> ac.roles]

\* GetResourcesMetadata: the fixed permissions of the user's built-in roles,
\* as the registry holds them, followed by the stored ones, matched against
\* each resource ID; nil and the error when the store fails
GetResourcesMetadata(ac, user, resource, resourceIDs) ==
    LET fixedPermissions == getFixedPermissions(ac, GetUserBuiltInRoles(user))
        stored == GetUserResourcePermissions(ac, user, resource, resourceIDs)
        userPermissions ==
            [i \in 1..Len(fixedPermissions) |-> Deref(ac.roles, fixedPermissions[i])]
                \o stored.perms
    IN  IF stored.err # "nil"
        THEN [result |-> [k \in {} |-> TRUE], err |-> stored.err, roles |-> ac.roles]
        ELSE [result |-> metadataOfAll([k \in {} |-> TRUE], resource, resourceIDs,
                                       userPermissions),
              err |-> "nil", roles |-> ac.roles]

\* authorization is enabled: the configuration is there and its
\* "accesscontrol" toggle is set to true
Enabled(cfg) ==
    /\ ~cfg.isNil
    /\ "accesscontrol" \in DOMAIN cfg.FeatureToggles
    /\ cfg.FeatureToggles["accesscontrol"]

----------------------------------------------------------------------------
(* The state machine *)

Init ==
    /\ Cfg \in Configurations
    /\ FixedRoles = [n \in {} |-> 0]
    /\ FixedRoleGrants = [b \in {} |-> <<>>]
    /\ registrations = <<>>
    /\ ret = [op |-> "init", err |-> "nil"]
    /\ granted = {}
    /\ named = {}
    /\ store = NoStoredPermissions
    /\ threads = [t \in Goroutines |-> Idle]
    /\ queryHistory = {}

\* registerFixedRole returning at once when IsDisabled
RegisterNothingWhenDisabled(role, builtInRoles) ==
    LET after == IF IsDisabled(Cfg)
                 THEN Registry
                 ELSE registerFixedRole(Registry, role, builtInRoles)
    IN  /\ FixedRoles' = after.roles
        /\ FixedRoleGrants' = after.grants
        /\ ret' = [op |-> "register", err |-> "nil"]
        /\ granted' = granted \cup asked(role, builtInRoles)
        /\ named' = named \cup {role.Name}
        /\ UNCHANGED <<queryHistory, Cfg, registrations, store, threads>>

\* a direct call of registerFixedRole(role, builtInRoles)
Register(role, builtInRoles) ==
    LET after == registerFixedRole(Registry, role, builtInRoles)
    IN  /\ FixedRoles' = after.roles
        /\ FixedRoleGrants' = after.grants
        /\ ret' = [op |-> "register", err |-> "nil"]
        /\ granted' = granted \cup asked(role, builtInRoles)
        /\ named' = named \cup {role.Name}
        /\ UNCHANGED <<queryHistory, Cfg, registrations, store, threads>>

\* a call of DeclareFixedRoles(regs...)
Declare(regs) ==
    LET after == DeclareFixedRoles(Cfg, registrations, regs)
    IN  /\ Len(registrations) + Len(regs) <= MaxQueue
        /\ registrations' = after.queue
        /\ ret' = [op |-> "declare", err |-> after.err]
        /\ UNCHANGED <<queryHistory, Cfg, FixedRoles, FixedRoleGrants, granted, named, store, threads>>

\* a call of RegisterFixedRoles()
Apply ==
    LET after == RegisterFixedRoles(Cfg, Registry, registrations)
    IN  /\ FixedRoles' = after.roles
        /\ FixedRoleGrants' = after.grants
        /\ ret' = [op |-> "apply", err |-> "nil"]
        /\ granted' = IF IsDisabled(Cfg)
                      THEN granted
                      ELSE granted \cup askedAll(registrations)
        /\ named' = IF IsDisabled(Cfg)
                    THEN named
                    ELSE named \cup { registrations[i].Role.Name :
                                          i \in 1..Len(registrations) }
        /\ UNCHANGED <<queryHistory, Cfg, registrations, store, threads>>

\* the usage-statistics service asks for the metrics
UsageMetrics ==
    /\ ret' = [op |-> "metrics", err |-> "nil", metrics |-> registerUsageMetrics(Cfg)]
    /\ UNCHANGED <<queryHistory, Cfg, FixedRoles, FixedRoleGrants, registrations, granted, named,
                   store, threads>>

\* the service: modules declare, start-up applies, late modules register,
\* the usage-statistics service reports
Next ==
    \/ \E regs \in Batches : Declare(regs)
    \/ Apply
    \/ \E r \in LateRegistrations : Register(r.Role, r.Grants)
    \/ UsageMetrics

Spec == Init /\ [][Next]_vars

\* the registry alone: any sequence of registerFixedRole calls
NextRegister ==
    \E r \in RoleRegistrations : Register(r.Role, r.Grants)

SpecRegister == Init /\ [][NextRegister]_vars

\* a call of Evaluate(ctx, user, evaluator)
Eval(user, evaluator) ==
    LET got == Evaluate(Service, user, evaluator)
    IN  /\ FixedRoles' = got.roles
        /\ ret' = [op |-> "evaluate", err |-> got.err, user |-> user,
                   evaluator |-> evaluator, result |-> got.result]
        /\ UNCHANGED <<queryHistory, Cfg, FixedRoleGrants, registrations, granted, named, store, threads>>

\* a call of GetUserPermissions(ctx, user)
Permissions(user) ==
    LET got == GetUserPermissions(Service, user)
    IN  /\ FixedRoles' = got.roles
        /\ ret' = [op |-> "permissions", err |-> got.err, user |-> user,
                   result |-> got.perms]
        /\ UNCHANGED <<queryHistory, Cfg, FixedRoleGrants, registrations, granted, named, store, threads>>

\* a call of GetResourcesMetadata(ctx, user, resource, resourceIDs)
Metadata(user, resource, resourceIDs) ==
    LET got == GetResourcesMetadata(Service, user, resource, resourceIDs)
    IN  /\ FixedRoles' = got.roles
        /\ ret' = [op |-> "metadata", err |-> got.err, user |-> user,
                   resource |-> resource, resourceIDs |-> resourceIDs,
                   result |-> got.result]
        /\ UNCHANGED <<queryHistory, Cfg, FixedRoleGrants, registrations, granted, named, store, threads>>

\* the callers of the store set what it holds for the user
SetStore(contents) ==
    /\ store' = contents
    /\ UNCHANGED <<queryHistory, Cfg, FixedRoles, FixedRoleGrants, registrations, ret, granted, named,
                   threads>>

\* the service after start-up: modules register roles, callers read
NextRead ==
    \/ \E r \in ReadRegistrations : Register(r.Role, r.Grants)
    \/ \E c \in StoreContents : SetStore(c)
    \/ \E u \in SignedInUsers, e \in Evaluators : Eval(u, e)
    \/ \E u \in SignedInUsers : Permissions(u)
    \/ \E u \in SignedInUsers, q \in MetadataRequests :
           Metadata(u, q.resource, q.resourceIDs)

\* the reads are made on a service whose toggle is set
InitRead ==
    /\ Init
    /\ Enabled(Cfg)

SpecRead == InitRead /\ [][NextRead]_vars

----------------------------------------------------------------------------
(* Properties *)

\* the (built-in role, role name) pairs of a grant map
GrantPairs(grants) ==
    UNION { { <<b, grants[b][i]>> : i \in 1..Len(grants[b]) } : b \in DOMAIN grants }

\* how many times a role name occurs in the lists of a grant map
Occurrences(grants, name) ==
    Cardinality({ p \in UNION { {b} \X (1..Len(grants[b])) : b \in DOMAIN grants } :
                      grants[p[1]][p[2]] = name })

\* C1: two registerFixedRole calls on a role name the registry does not hold,
\* with versions v1 then v2, leave the body of the call with the greater
\* version; when v1 = v2 they leave the body of the first call, even when the
\* second body differs.
C1_GreaterVersionWins ==
    \A r1 \in RoleRegistrations :
        r1.Role.Name \notin DOMAIN FixedRoles
        => \A r2 \in RoleRegistrations :
               r2.Role.Name = r1.Role.Name
               => LET first  == registerFixedRole(Registry, r1.Role, r1.Grants)
                      second == registerFixedRole(first, r2.Role, r2.Grants)
                  IN  second.roles[r1.Role.Name] =
                          IF r2.Role.Version > r1.Role.Version
                          THEN r2.Role
                          ELSE r1.Role

\* the registry holds, after a registerFixedRole call, a version tie: the body
\* of a first call and not the differing body of the second
C1_Witness ==
    /\ ret.op = "register"
    /\ \E r1 \in RoleRegistrations, r2 \in RoleRegistrations :
           /\ r1.Role.Name = r2.Role.Name
           /\ r1.Role.Version = r2.Role.Version
           /\ r1.Role.Permissions # r2.Role.Permissions
           /\ Registry =
                  registerFixedRole(
                      registerFixedRole([roles |-> [n \in {} |-> 0],
                                         grants |-> [b \in {} |-> <<>>]],
                                        r1.Role, r1.Grants),
                      r2.Role, r2.Grants)
           /\ FixedRoles[r1.Role.Name] = r1.Role

\* C2: grants are monotonic: no call (register, declare, apply) removes a
\* (built-in role, role name) pair from the grant map, so the pairs after a
\* sequence of calls include the pairs after each of its prefixes.
C2_GrantsMonotonic ==
    [][GrantPairs(FixedRoleGrants) \subseteq GrantPairs(FixedRoleGrants')]_vars

\* a built-in role holds two roles, the second added by a later call
C2_Witness ==
    \E b \in DOMAIN FixedRoleGrants :
        /\ Len(FixedRoleGrants[b]) >= 2
        /\ Cardinality(GrantPairs(FixedRoleGrants)) >= 3

\* C3: after any sequence of registerFixedRole calls no grant list holds a
\* role name twice, and a role name occurs in the grant lists as many times
\* as there are built-in roles it was ever granted to.
C3_GrantsIdempotent ==
    /\ \A b \in DOMAIN FixedRoleGrants :
           \A i \in 1..Len(FixedRoleGrants[b]), j \in 1..Len(FixedRoleGrants[b]) :
               FixedRoleGrants[b][i] = FixedRoleGrants[b][j] => i = j
    /\ \A name \in RoleNames :
           Occurrences(FixedRoleGrants, name) =
               Cardinality({ p \in granted : p[2] = name })

\* a role was granted to two built-in roles and a second role to one of them
C3_Witness ==
    /\ ret.op = "register"
    /\ \E name \in RoleNames : Occurrences(FixedRoleGrants, name) >= 2
    /\ \E b \in DOMAIN FixedRoleGrants : Len(FixedRoleGrants[b]) >= 2

\* C4: a registerFixedRole(role, grants) call for a name stored with a version
\* greater than or equal to role.Version leaves the role map unchanged and
\* leaves role.Name in the grant list of every built-in role in grants.
C4_GrantsDespiteVersionGate ==
    \A r \in RoleRegistrations :
        (r.Role.Name \in DOMAIN FixedRoles
            /\ FixedRoles[r.Role.Name].Version >= r.Role.Version)
        => LET after == registerFixedRole(Registry, r.Role, r.Grants)
           IN  /\ after.roles = FixedRoles
               /\ \A i \in 1..Len(r.Grants) :
                      /\ r.Grants[i] \in DOMAIN after.grants
                      /\ \E k \in 1..Len(after.grants[r.Grants[i]]) :
                             after.grants[r.Grants[i]][k] = r.Role.Name

\* version 1 of a role was granted to Viewer and then, by a call that could
\* not save its body, to Editor: the role is granted to both
C4_Witness ==
    /\ ret.op = "register"
    /\ \E name \in DOMAIN FixedRoles :
           /\ FixedRoles[name].Version = 1
           /\ <<"Viewer", name>> \in GrantPairs(FixedRoleGrants)
           /\ <<"Editor", name>> \in GrantPairs(FixedRoleGrants)

\* C5: DeclareFixedRoles is all-or-nothing: a call that returns a validation
\* error leaves the declaration queue exactly as it was before the call.
C5_DeclareAllOrNothing ==
    [][(Enabled(Cfg) /\ ret'.op = "declare" /\ ret'.err # "nil")
           => registrations' = registrations]_vars

\* C6: with authorization enabled, a DeclareFixedRoles call that returns no
\* error appends exactly its arguments, in order, to the declaration queue and
\* leaves the role map and the grant map unchanged.
C6_DeclareOnlyQueues ==
    [][\A regs \in Batches :
           (Declare(regs) /\ ~IsDisabled(Cfg) /\ ret'.err = "nil")
           => /\ registrations' = registrations \o regs
              /\ FixedRoles' = FixedRoles
              /\ FixedRoleGrants' = FixedRoleGrants]_vars

\* two registrations were declared one after the other and no role is
\* registered yet
C6_Witness ==
    /\ ~IsDisabled(Cfg)
    /\ ret = [op |-> "declare", err |-> "nil"]
    /\ Len(registrations) = 2
    /\ registrations[1] # registrations[2]
    /\ DOMAIN FixedRoles = {}
    /\ DOMAIN FixedRoleGrants = {}

\* C7: when RegisterFixedRoles has returned with authorization enabled, every
\* queued registration has a role stored under its role name, and that name is
\* in the grant list of every built-in role of its grants.
C7_ApplyRegistersAll ==
    (ret.op = "apply" /\ ~IsDisabled(Cfg))
    => \A i \in 1..Len(registrations) :
           /\ registrations[i].Role.Name \in DOMAIN FixedRoles
           /\ \A j \in 1..Len(registrations[i].Grants) :
                  <<registrations[i].Grants[j], registrations[i].Role.Name>>
                      \in GrantPairs(FixedRoleGrants)

\* RegisterFixedRoles has applied a queue of two registrations of two roles
C7_Witness ==
    /\ ret.op = "apply"
    /\ ~IsDisabled(Cfg)
    /\ Len(registrations) = 2
    /\ registrations[1].Role.Name # registrations[2].Role.Name
    /\ Cardinality(DOMAIN FixedRoles) = 2

\* C8: RegisterFixedRoles is replayable: once it has run, running it again
\* leaves the role map and the grant map as they are, also when a late
\* registerFixedRole call (of a higher version or not) came in between.
C8_ApplyReplayable ==
    ret.op = "apply"
    => /\ RegisterFixedRoles(Cfg, Registry, registrations) = Registry
       /\ \A r \in LateRegistrations :
              LET late == registerFixedRole(Registry, r.Role, r.Grants)
              IN  RegisterFixedRoles(Cfg, late, registrations) = late

\* RegisterFixedRoles has applied a queue, and a late registration of a
\* higher version than the stored one is possible
C8_Witness ==
    /\ ret.op = "apply"
    /\ ~IsDisabled(Cfg)
    /\ registrations # <<>>
    /\ \E r \in LateRegistrations :
           /\ r.Role.Name \in DOMAIN FixedRoles
           /\ r.Role.Version > FixedRoles[r.Role.Name].Version
           /\ \E i \in 1..Len(registrations) :
                  registrations[i].Role.Name = r.Role.Name

C10_DisabledRegisterNoOp ==
    [][(IsDisabled(Cfg) /\ ret'.op = "register")
           => /\ FixedRoles' = FixedRoles
              /\ FixedRoleGrants' = FixedRoleGrants]_vars

\* C10 as amended: registerFixedRole does not consult the configuration: also
\* when IsDisabled, after registerFixedRole(role, grants) a role is stored
\* under role.Name and role.Name is in the grant list of every built-in role
\* in grants (for every call made so far).
C10_DisabledRegisterStillRegisters ==
    (IsDisabled(Cfg) /\ ret.op = "register")
    => /\ named # {}
       /\ named \subseteq DOMAIN FixedRoles
       /\ granted \subseteq GrantPairs(FixedRoleGrants)

\* a disabled service has registered a role and granted it
C10_Witness ==
    /\ IsDisabled(Cfg)
    /\ ret.op = "register"
    /\ named # {}
    /\ granted # {}
    /\ DOMAIN FixedRoles # {}
    /\ GrantPairs(FixedRoleGrants) # {}

----------------------------------------------------------------------------
(* Properties of the reads *)

\* expand: the built-in roles of a user as a set, rung by rung of the
\* ladder Viewer < Editor < Admin, with the Grafana admin role for a
\* Grafana admin
Expand(user) ==
    (IF user.OrgRole \in {"Viewer", "Editor", "Admin"} THEN {"Viewer"} ELSE {})
        \cup (IF user.OrgRole \in {"Editor", "Admin"} THEN {"Editor"} ELSE {})
        \cup (IF user.OrgRole = "Admin" THEN {"Admin"} ELSE {})
        \cup (IF user.IsGrafanaAdmin THEN {RoleGrafanaAdmin} ELSE {})

\* the registered roles granted to one of the built-in roles
GrantedRoles(builtInRoles) ==
    { n \in DOMAIN FixedRoles :
          \E b \in builtInRoles : <<b, n>> \in GrantPairs(FixedRoleGrants) }

\* the permissions of a set of registered roles
PermissionsOfRoles(names) ==
    UNION { { FixedRoles[n].Permissions[i] : i \in 1..Len(FixedRoles[n].Permissions) } :
                n \in names }

\* the elements of a sequence
Range(seq) == { seq[i] : i \in 1..Len(seq) }

\* the permissions of the registered roles granted to a built-in role in
\* expand(user), each resolved for the user
ExpandedPermissions(user) ==
    { ResolveKeyword(user, p).permission :
          p \in PermissionsOfRoles(GrantedRoles(Expand(user))) }

\* C11: the permissions a successful GetUserPermissions call returns are
\* those of the registered roles granted to a built-in role in expand(user),
\* each resolved for the user, and no other; a successful Evaluate call is
\* answered true on an evaluator built from one of them, and false on an
\* evaluator whose action is in none of them.
C11_PermissionsFollowExpandedRoles ==
    /\ (ret.op = "permissions" /\ ret.err = "nil")
       => Range(ret.result) = ExpandedPermissions(ret.user)
    /\ (ret.op = "evaluate" /\ ret.err = "nil")
       => /\ ret.evaluator \in ExpandedPermissions(ret.user) => ret.result
          /\ ret.evaluator.Action \notin
                 { p.Action : p \in ExpandedPermissions(ret.user) } => ~ret.result

\* an Editor was answered true on a permission of a role granted to Viewer alone
C11_Witness ==
    /\ ret.op = "evaluate"
    /\ ret.user.OrgRole = "Editor"
    /\ ret.result
    /\ ret.evaluator.Action = "users:read"
    /\ GrantedRoles({"Editor"}) = {}
    /\ GrantedRoles({"Viewer"}) # {}

\* the registered roles granted to the Grafana admin role and to no other
GrafanaAdminOnlyRoles ==
    { n \in DOMAIN FixedRoles :
          { pair[1] : pair \in { q \in GrantPairs(FixedRoleGrants) : q[2] = n } }
              = {RoleGrafanaAdmin} }

\* C12: a successful Evaluate call for a Viewer, on an evaluator built from a
\* permission of a role granted to the Grafana admin role alone, is answered
\* true when the Viewer is a Grafana admin, and false when the Viewer is not
\* and no role granted to Viewer carries the action.
C12_GrafanaAdminByFlagAlone ==
    (/\ ret.op = "evaluate"
     /\ ret.err = "nil"
     /\ ret.user.OrgRole = "Viewer"
     /\ ret.evaluator \in PermissionsOfRoles(GrafanaAdminOnlyRoles))
    => /\ ret.user.IsGrafanaAdmin => ret.result
       /\ (/\ ~ret.user.IsGrafanaAdmin
           /\ ret.evaluator.Action \notin
                  { p.Action : p \in PermissionsOfRoles(GrantedRoles({"Viewer"})) })
          => ~ret.result

\* a Viewer who is a Grafana admin was answered true on "users:disable"
C12_Witness ==
    /\ ret.op = "evaluate"
    /\ ret.user.OrgRole = "Viewer"
    /\ ret.user.IsGrafanaAdmin
    /\ ret.evaluator.Action = "users:disable"
    /\ ret.evaluator \in PermissionsOfRoles(GrafanaAdminOnlyRoles)
    /\ ret.result

\* the user IDs as the scopes spell them
UserIdText(userId) == IF userId = 1 THEN "1" ELSE "2"

\* C13: a successful GetUserPermissions call returns, for every permission
\* scoped "users:self" of a role granted to the user's built-in roles, the
\* same action scoped "users:id:<UserId>"; it returns no permission scoped
\* "users:self"; and it returns the permissions without a placeholder as the
\* roles hold them.
C13_SelfScopeResolved ==
    (ret.op = "permissions" /\ ret.err = "nil")
    => /\ \A p \in PermissionsOfRoles(GrantedRoles(Expand(ret.user))) :
              /\ p.Scope = ScopeUsersSelf
                 => [Action |-> p.Action,
                     Scope |-> <<"users", "id", UserIdText(ret.user.UserId)>>]
                        \in Range(ret.result)
              /\ p.Scope \notin {ScopeUsersSelf, ScopeTeamsSelf}
                 => p \in Range(ret.result)
       /\ \A q \in Range(ret.result) : q.Scope # ScopeUsersSelf

\* user 2 was returned "users:read" on "users:id:2" next to a permission
\* without a placeholder
C13_Witness ==
    /\ ret.op = "permissions"
    /\ ret.err = "nil"
    /\ ret.user.UserId = 2
    /\ [Action |-> "users:read", Scope |-> <<"users", "id", "2">>] \in Range(ret.result)
    /\ [Action |-> "resources:read", Scope |-> <<"resources", "id", "2">>] \in Range(ret.result)

\* the resolver fails on a permission of a role granted to the user's
\* built-in roles
ResolutionFails(user) ==
    \E p \in PermissionsOfRoles(GrantedRoles(Expand(user))) :
        ResolveKeyword(user, p).err # "nil"

\* C14: when the resolver fails on one of the user's fixed permissions, a
\* GetUserPermissions call returns that error and no permission, not even
\* those it resolved before the failure, and an Evaluate call returns that
\* error and false.
C14_ResolutionFailureFailsAll ==
    /\ (ret.op = "permissions" /\ ResolutionFails(ret.user))
       => ret.err = "ErrResolution" /\ ret.result = <<>>
    /\ (ret.op = "evaluate" /\ ResolutionFails(ret.user))
       => ret.err = "ErrResolution" /\ ret.result = FALSE

\* GetUserPermissions failed for an Editor of no team whose role lists a
\* "users:self" permission before the "teams:self" one
C14_Witness ==
    /\ ret.op = "permissions"
    /\ ret.err = "ErrResolution"
    /\ ret.user.Teams = <<>>
    /\ TeamsReader.Name \in GrantedRoles(Expand(ret.user))
    /\ TeamsReader.Permissions[1].Scope = ScopeUsersSelf

\* the calls that read the registry
ReadOps == {"evaluate", "permissions", "metadata"}

\* C15: an Evaluate, GetUserPermissions or GetResourcesMetadata call leaves
\* the registry as it was: the roles with their permissions, templated scopes
\* included, and the grant lists.
C15_ReadsLeaveRegistry ==
    [][ret'.op \in ReadOps
       => FixedRoles' = FixedRoles /\ FixedRoleGrants' = FixedRoleGrants]_vars

\* GetUserPermissions returned a resolved scope for user 1 and the role still
\* holds the "users:self" scope it was resolved from
C15_Witness ==
    /\ ret.op = "permissions"
    /\ ret.err = "nil"
    /\ ret.user.UserId = 1
    /\ ret.result # <<>>
    /\ ret.result[1].Scope = <<"users", "id", "1">>
    /\ UsersReader.Name \in DOMAIN FixedRoles
    /\ FixedRoles[UsersReader.Name].Permissions[1].Scope = ScopeUsersSelf

\* what an Evaluate call returns to its caller
Answer(ac, user, evaluator) ==
    LET got == Evaluate(ac, user, evaluator)
    IN  [result |-> got.result, err |-> got.err]

\* the service as a step leaves it
ServiceAfter == [roles |-> FixedRoles', grants |-> FixedRoleGrants', store |-> store']

\* C16: an Evaluate call returns what the same call returns when it is made
\* again right after it, and it leaves the answer of every user's call with
\* that evaluator as it was before: with no registration in between, calls
\* with the same user and evaluator return the same result and error.
C16_EvaluateRepeatable ==
    [][ret'.op = "evaluate" /\ ret' # ret
       => \A u \in SignedInUsers, e \in Evaluators :
              e = ret'.evaluator
              => /\ Answer(ServiceAfter, u, e) = Answer(Service, u, e)
                 /\ u = ret'.user
                    => Answer(ServiceAfter, u, e) = [result |-> ret'.result, err |-> ret'.err]]_vars

\* user 1 was answered true on "users:id:1" while the role that gives it
\* still holds "users:self" for the calls of user 2
C16_Witness ==
    /\ ret.op = "evaluate"
    /\ ret.err = "nil"
    /\ ret.user.UserId = 1
    /\ ret.evaluator.Scope = <<"users", "id", "1">>
    /\ ret.result
    /\ \E n \in GrantedRoles(Expand(ret.user)) :
           FixedRoles[n].Permissions[1].Scope = ScopeUsersSelf

\* C17: what an Evaluate call returned is what it returns whatever the store
\* holds, a failing store included; and the call is answered false on an
\* evaluator equal to a stored permission whose action no fixed permission
\* of the user carries.
C17_EvaluateIgnoresStore ==
    ret.op = "evaluate"
    => /\ \A c \in StoreContents :
              Answer([Service EXCEPT !.store = c], ret.user, ret.evaluator)
                  = [result |-> ret.result, err |-> ret.err]
       /\ (/\ ret.evaluator \in Range(store.perms)
           /\ ret.evaluator.Action \notin
                  { p.Action : p \in PermissionsOfRoles(GrantedRoles(Expand(ret.user))) })
          => ~ret.result

\* Evaluate was answered false, without error, on a permission the store holds
C17_Witness ==
    /\ ret.op = "evaluate"
    /\ ret.err = "nil"
    /\ ret.evaluator \in Range(store.perms)
    /\ ~ret.result

\* C18: an Evaluate call returns an error exactly when the resolver fails on
\* one of the user's fixed permissions, and the error is the resolver's; a
\* call that finds no matching permission returns false and no error.
C18_ErrorOnlyFromResolution ==
    ret.op = "evaluate"
    => /\ ret.err # "nil" <=> ResolutionFails(ret.user)
       /\ ret.err \in {"nil", "ErrResolution"}

\* a Viewer who is no Grafana admin was answered false, without error, on
\* "users:disable"
C18_Witness ==
    /\ ret.op = "evaluate"
    /\ ret.user.OrgRole = "Viewer"
    /\ ~ret.user.IsGrafanaAdmin
    /\ ret.evaluator.Action = "users:disable"
    /\ ret.result = FALSE
    /\ ret.err = "nil"

\* the wildcard rule, as a comparison of whole scopes: the granted scope is
\* the scope asked for, or is "*", or ends in a "*" segment after segments
\* that are the first segments of a longer scope asked for
Matches(scope, required) ==
    \/ scope = required
    \/ scope = ScopeAll
    \/ /\ scope # <<>>
       /\ scope[Len(scope)] = "*"
       /\ Len(required) >= Len(scope)
       /\ SubSeq(required, 1, Len(scope) - 1) = SubSeq(scope, 1, Len(scope) - 1)

\* C19: a successful Evaluate call is answered true exactly when one of the
\* user's resolved permissions carries the evaluator's action with a scope
\* that matches the evaluator's scope under the wildcard rule; "*" matches
\* every scope, and "resources:*" matches "resources:5" but not
\* "resources-other:5".
C19_WildcardRule ==
    /\ (ret.op = "evaluate" /\ ret.err = "nil")
       => (ret.result <=> \E p \in ExpandedPermissions(ret.user) :
                              /\ p.Action = ret.evaluator.Action
                              /\ Matches(p.Scope, ret.evaluator.Scope))
    /\ \A e \in AllEvaluators : match(ScopeAll, e.Scope)
    /\ match(<<"resources", "*">>, <<"resources", "5">>)
    /\ ~match(<<"resources", "*">>, <<"resources-other", "5">>)

\* an Admin was answered true on "resources:5" by the grant of "resources:*"
C19_Witness ==
    /\ ret.op = "evaluate"
    /\ ret.err = "nil"
    /\ ret.evaluator = [Action |-> "resources:write", Scope |-> <<"resources", "5">>]
    /\ ret.result
    /\ [Action |-> "resources:write", Scope |-> <<"resources", "*">>]
           \in ExpandedPermissions(ret.user)

\* the permissions a GetResourcesMetadata call for the user goes through: the
\* fixed ones as the roles hold them and the stored ones
MetadataPermissions(user) ==
    PermissionsOfRoles(GrantedRoles(Expand(user))) \cup Range(store.perms)

\* the permissions whose scope is "*", "<resource>:*", "<resource>:id:*" or
\* "<resource>:id:<r>"
MatchingPermissions(user, resource, r) ==
    { p \in MetadataPermissions(user) :
          p.Scope \in { <<"*">>, <<resource, "*">>, <<resource, "id", "*">>,
                        <<resource, "id", r>> } }

\* C20: the map a successful GetResourcesMetadata call returns has a key for
\* a resource ID exactly when the ID was asked about and one of the user's
\* fixed or stored permissions matches it; no key maps to an empty map, and
\* every action recorded maps to true.
C20_MetadataOmitsUnmatched ==
    [][(ret'.op = "metadata" /\ ret'.err = "nil" /\ store' = store)
       => /\ DOMAIN ret'.result =
                 { r \in Range(ret'.resourceIDs) :
                       MatchingPermissions(ret'.user, ret'.resource, r) # {} }
          /\ \A r \in DOMAIN ret'.result :
                 /\ DOMAIN ret'.result[r] # {}
                 /\ \A a \in DOMAIN ret'.result[r] : ret'.result[r][a] = TRUE]_vars

\* resources 1, 2 and 3 were asked about and the map has the key "2" alone
C20_Witness ==
    /\ ret.op = "metadata"
    /\ ret.err = "nil"
    /\ ret.resourceIDs = <<"1", "2", "3">>
    /\ DOMAIN ret.result = {"2"}

\* the actions a metadata map records for a resource ID
RecordedActions(result, r) ==
    IF r \in DOMAIN result THEN DOMAIN result[r] ELSE {}

\* C21: the map a successful GetResourcesMetadata call returns records an
\* action for a requested resource ID exactly when the fixed permissions of
\* the user's built-in roles followed by the stored permissions hold a
\* permission with that action scoped "*", "<resource>:*",
\* "<resource>:id:*" or "<resource>:id:<ID>".
C21_MetadataRecordsMatchedActions ==
    [][(ret'.op = "metadata" /\ ret'.err = "nil" /\ store' = store)
       => \A r \in Range(ret'.resourceIDs) :
              RecordedActions(ret'.result, r) =
                  { p.Action : p \in MatchingPermissions(ret'.user, ret'.resource, r) }]_vars

\* an Admin asked about resources 1, 2 and 3: the fixed "resources:*" and "*"
\* actions are under every ID, next to the stored action of resource 1
C21_Witness ==
    /\ ret.op = "metadata"
    /\ ret.err = "nil"
    /\ ret.resourceIDs = <<"1", "2", "3">>
    /\ DOMAIN ret.result = {"1", "2", "3"}
    /\ DOMAIN ret.result["3"] = {"resources:write", "resources:delete"}
    /\ DOMAIN ret.result["1"] = {"resources:write", "resources:delete", "resources:action1"}

\* C22: a successful GetResourcesMetadata call on the resource "users" that
\* asks about the user's own ID records, under that ID, the action of every
\* fixed permission scoped "users:self" of the user's built-in roles.
C22_MetadataResolvesSelf ==
    [][(/\ ret'.op = "metadata" /\ ret'.err = "nil" /\ store' = store
        /\ ret'.resource = "users"
        /\ UserIdText(ret'.user.UserId) \in Range(ret'.resourceIDs))
       => \A p \in PermissionsOfRoles(GrantedRoles(Expand(ret'.user))) :
              p.Scope = ScopeUsersSelf
              => p.Action \in RecordedActions(ret'.result,
                                              UserIdText(ret'.user.UserId))]_vars

\* C23: when the store fails, a GetResourcesMetadata call returns the error
\* of the store and no map, not even the entries that the fixed permissions
\* give, and it leaves the registry as it was.
C23_StoreFailureFailsMetadata ==
    [][(ret'.op = "metadata" /\ store' = store /\ ret' # ret /\ store.err # "nil")
       => /\ ret'.err = store.err
          /\ ret'.result = [k \in {} |-> TRUE]
          /\ FixedRoles' = FixedRoles
          /\ FixedRoleGrants' = FixedRoleGrants]_vars

\* GetResourcesMetadata failed with the error of the store for a user whose
\* fixed permissions match the resource asked about
C23_Witness ==
    /\ ret.op = "metadata"
    /\ ret.err = "ErrStore"
    /\ store.err = "ErrStore"
    /\ ret.result = [k \in {} |-> TRUE]
    /\ [Action |-> "resources:write", Scope |-> <<"resources", "*">>]
           \in PermissionsOfRoles(GrantedRoles(Expand(ret.user)))
    /\ ret.resource = "resources"

----------------------------------------------------------------------------
(* Concurrent reads: Evaluate and GetResourcesMetadata calls on two          *)
(* goroutines, one step per loop iteration of a call                         *)

\* the registrations that start-up has applied before the reads
StartUpQueue ==
    << [Role |-> UsersReader, Grants |-> <<"Viewer">>],
       [Role |-> TeamsReader, Grants |-> <<"Editor">>],
       [Role |-> ResourcesWriter, Grants |-> <<"Admin">>],
       [Role |-> UsersAdmin, Grants |-> <<RoleGrafanaAdmin>>] >>

\* the users, evaluators and requests of the concurrent calls
ConcurrentUsers == { User(1, "Viewer", FALSE), User(1, "Editor", FALSE), User(2, "Admin", FALSE) }

ConcurrentEvaluators ==
    { [Action |-> "users:read", Scope |-> <<"users", "id", "1">>],
      [Action |-> "resources:write", Scope |-> <<"resources", "5">>] }

ConcurrentRequests ==
    { [resource |-> "resources", resourceIDs |-> <<"1", "2", "3">>] }

\* the body of the loop of GetUserPermissions resolving through the pointer
resolveOneInPlace(user, roles, p) ==
    LET r == ResolveKeyword(user, Deref(roles, p))
    IN  [permission |-> r.permission, err |-> r.err,
         roles |-> IF r.err # "nil" THEN roles
                   ELSE [roles EXCEPT ![p.name].Permissions[p.i] = r.permission]]

\* the body of the loop of GetUserPermissions: the copy *p is resolved, the
\* role behind the pointer is left as it was
resolveOne(user, roles, p) ==
    LET r == ResolveKeyword(user, Deref(roles, p))
    IN  [permission |-> r.permission, err |-> r.err, roles |-> roles]

\* Evaluate enters GetUserPermissions: the pointers getFixedPermissions
\* returns and an empty `resolved` are the call's locals
StartEvaluate(g, user, evaluator) ==
    /\ threads[g].pc = "idle"
    /\ threads' = [threads EXCEPT ![g] =
           [pc |-> "resolving", op |-> "evaluate", user |-> user,
            evaluator |-> evaluator,
            permissions |-> getFixedPermissions(Service, GetUserBuiltInRoles(user)),
            resolved |-> <<>>, seen |-> FixedRoles]]
    /\ UNCHANGED <<queryHistory, Cfg, FixedRoles, FixedRoleGrants, registrations, ret, granted, named, store>>

\* one iteration of the loop of GetUserPermissions
Resolve(g) ==
    /\ threads[g].pc = "resolving"
    /\ threads[g].permissions # <<>>
    /\ LET r == resolveOne(threads[g].user, FixedRoles, Head(threads[g].permissions))
       IN  /\ FixedRoles' = r.roles
           /\ threads' = [threads EXCEPT ![g] =
                  IF r.err # "nil"
                  THEN [pc |-> "done", op |-> "evaluate", user |-> @.user,
                        evaluator |-> @.evaluator, seen |-> @.seen,
                        result |-> FALSE, err |-> r.err]
                  ELSE [@ EXCEPT !.permissions = Tail(@),
                                 !.resolved = Append(@, r.permission)]]
    /\ UNCHANGED <<queryHistory, Cfg, FixedRoleGrants, registrations, ret, granted, named, store>>

\* the loop is over: Evaluate groups what was resolved and asks the evaluator
FinishEvaluate(g) ==
    /\ threads[g].pc = "resolving"
    /\ threads[g].permissions = <<>>
    /\ LET res == EvalPermission(threads[g].evaluator,
                                 GroupScopesByAction(threads[g].resolved))
       IN  threads' = [threads EXCEPT ![g] =
               [pc |-> "done", op |-> "evaluate", user |-> @.user,
                evaluator |-> @.evaluator, seen |-> @.seen,
                result |-> res.result, err |-> res.err]]
    /\ UNCHANGED <<queryHistory, Cfg, FixedRoles, FixedRoleGrants, registrations, ret, granted, named, store>>

\* GetResourcesMetadata up to the store call: the pointers are the call's locals
StartMetadata(g, user, resource, resourceIDs) ==
    /\ threads[g].pc = "idle"
    /\ threads' = [threads EXCEPT ![g] =
           [pc |-> "fetched", op |-> "metadata", user |-> user,
            resource |-> resource, resourceIDs |-> resourceIDs,
            permissions |-> getFixedPermissions(Service, GetUserBuiltInRoles(user)),
            seen |-> FixedRoles]]
    /\ UNCHANGED <<queryHistory, Cfg, FixedRoles, FixedRoleGrants, registrations, ret, granted, named, store>>

\* GetResourcesMetadata from the store call on
FinishMetadata(g) ==
    /\ threads[g].pc = "fetched"
    /\ LET th == threads[g]
           stored == GetUserResourcePermissions(Service, th.user, th.resource, th.resourceIDs)
           userPermissions ==
               [i \in 1..Len(th.permissions) |-> Deref(FixedRoles, th.permissions[i])]
                   \o stored.perms
       IN  threads' = [threads EXCEPT ![g] =
               [pc |-> "done", op |-> "metadata", user |-> th.user,
                resource |-> th.resource, resourceIDs |-> th.resourceIDs,
                seen |-> th.seen,
                result |-> IF stored.err # "nil"
                           THEN [k \in {} |-> TRUE]
                           ELSE metadataOfAll([k \in {} |-> TRUE], th.resource,
                                              th.resourceIDs, userPermissions),
                err |-> stored.err]]
    /\ UNCHANGED <<queryHistory, Cfg, FixedRoles, FixedRoleGrants, registrations, ret, granted, named, store>>

\* the goroutines read at the same time, in any interleaving of their steps
NextConcurrentReads ==
    \E g \in Goroutines :
        \/ \E u \in ConcurrentUsers, e \in ConcurrentEvaluators : StartEvaluate(g, u, e)
        \/ Resolve(g)
        \/ FinishEvaluate(g)
        \/ \E u \in ConcurrentUsers, q \in ConcurrentRequests :
               StartMetadata(g, u, q.resource, q.resourceIDs)
        \/ FinishMetadata(g)

\* start-up has applied its registrations; the store holds anything
InitConcurrentReads ==
    /\ Cfg \in Configurations
    /\ Enabled(Cfg)
    /\ FixedRoles = registerAll([roles |-> [n \in {} |-> 0], grants |-> [b \in {} |-> <<>>]],
                                StartUpQueue).roles
    /\ FixedRoleGrants = registerAll([roles |-> [n \in {} |-> 0], grants |-> [b \in {} |-> <<>>]],
                                     StartUpQueue).grants
    /\ registrations = StartUpQueue
    /\ ret = [op |-> "apply", err |-> "nil"]
    /\ granted = askedAll(StartUpQueue)
    /\ named = { StartUpQueue[i].Role.Name : i \in 1..Len(StartUpQueue) }
    /\ store \in StoreContents
    /\ threads = [g \in Goroutines |-> Idle]
    /\ queryHistory = {}

SpecConcurrentReads == InitConcurrentReads /\ [][NextConcurrentReads]_vars

\* what the call of a goroutine returns when it runs alone on the registry
\* and the store that it started on
Alone(th) ==
    LET ac == [roles |-> th.seen, grants |-> FixedRoleGrants, store |-> store]
    IN  IF th.op = "evaluate"
        THEN Answer(ac, th.user, th.evaluator)
        ELSE LET got == GetResourcesMetadata(ac, th.user, th.resource, th.resourceIDs)
             IN  [result |-> got.result, err |-> got.err]

\* C26: with no registration under way, every Evaluate or
\* GetResourcesMetadata call that finishes on a goroutine, whatever the calls
\* on the other goroutine and however their steps interleave, has returned
\* what the same call returns when it runs alone on that registry and store.
C26_ConcurrentReadsAsAlone ==
    \A g \in Goroutines :
        threads[g].pc = "done"
        => [result |-> threads[g].result, err |-> threads[g].err] = Alone(threads[g])

\* two Evaluate calls for two users of the "users:self" permission have
\* both finished, one answered true and one false on "users:id:1"
C26_Witness ==
    /\ threads["g1"].pc = "done" /\ threads["g2"].pc = "done"
    /\ threads["g1"].op = "evaluate" /\ threads["g2"].op = "evaluate"
    /\ threads["g1"].user # threads["g2"].user
    /\ threads["g1"].evaluator = threads["g2"].evaluator
    /\ threads["g1"].evaluator.Action = "users:read"
    /\ threads["g1"].result /\ ~threads["g2"].result

----------------------------------------------------------------------------
(* Concurrent registration: registerFixedRole calls of lazily loaded modules *)
(* next to reads, on two goroutines. The maps FixedRoles and FixedRoleGrants *)
(* are plain maps and the code takes no lock, so every map access is a step  *)
(* that begins and a step that ends, and the steps of the goroutines         *)
(* interleave freely.                                                        *)

\* the program counters at which a goroutine is inside a read or a write of a map
ReadingAt == [roles |-> {"readRoles", "fetchingRole"}, grants |-> {"readGrants", "fetchingGrants"}]

WritingAt == [roles |-> {"writeRoles"}, grants |-> {"writeGrants"}]

Reads(g, map) == threads[g].pc \in ReadingAt[map]

Writes(g, map) == threads[g].pc \in WritingAt[map]

\* a write to a map is under way while another goroutine reads or writes that map
Overlap ==
    \E g \in Goroutines, h \in Goroutines, map \in {"roles", "grants"} :
        g # h /\ Writes(g, map) /\ (Reads(h, map) \/ Writes(h, map))

\* the test of saveFixedRole on what its lookup found: skip the write
skipSave(roles, role) ==
    role.Name \in DOMAIN roles /\ roles[role.Name].Version >= role.Version

\* where assignFixedRole goes on from built-in role number i
afterGrant(th, i) ==
    IF i > Len(th.builtInRoles)
    THEN [pc |-> "done", op |-> "register", role |-> th.role,
          builtInRoles |-> th.builtInRoles]
    ELSE [pc |-> "assignFixedRole", op |-> "register", role |-> th.role,
          builtInRoles |-> th.builtInRoles, i |-> i]

\* a module calls registerFixedRole(role, builtInRoles)
StartRegister(g, role, builtInRoles) ==
    /\ threads[g].pc = "idle"
    /\ threads' = [threads EXCEPT ![g] =
           [pc |-> "saveFixedRole", op |-> "register", role |-> role,
            builtInRoles |-> builtInRoles]]
    /\ granted' = granted \cup asked(role, builtInRoles)
    /\ named' = named \cup {role.Name}
    /\ UNCHANGED <<queryHistory, Cfg, FixedRoles, FixedRoleGrants, registrations, ret, store>>

\* saveFixedRole: the lookup FixedRoles[role.Name] begins
LookupRole(g) ==
    /\ threads[g].pc = "saveFixedRole"
    /\ threads' = [threads EXCEPT ![g].pc = "readRoles"]
    /\ UNCHANGED <<queryHistory, Cfg, FixedRoles, FixedRoleGrants, registrations, ret, granted, named, store>>

\* saveFixedRole: the lookup ends and the versions are compared
LookedUpRole(g) ==
    /\ threads[g].pc = "readRoles"
    /\ threads' = [threads EXCEPT ![g] =
           IF skipSave(FixedRoles, @.role)
           THEN afterGrant(@, 1)
           ELSE [@ EXCEPT !.pc = "storeRole"]]
    /\ UNCHANGED <<queryHistory, Cfg, FixedRoles, FixedRoleGrants, registrations, ret, granted, named, store>>

\* saveFixedRole: the write FixedRoles[role.Name] = role begins
SaveRole(g) ==
    /\ threads[g].pc = "storeRole"
    /\ threads' = [threads EXCEPT ![g].pc = "writeRoles"]
    /\ UNCHANGED <<queryHistory, Cfg, FixedRoles, FixedRoleGrants, registrations, ret, granted, named, store>>

\* saveFixedRole: the write ends
SavedRole(g) ==
    /\ threads[g].pc = "writeRoles"
    /\ FixedRoles' = [n \in DOMAIN FixedRoles \cup {threads[g].role.Name} |->
                         IF n = threads[g].role.Name THEN threads[g].role ELSE FixedRoles[n]]
    /\ threads' = [threads EXCEPT ![g] = afterGrant(@, 1)]
    /\ UNCHANGED <<queryHistory, Cfg, FixedRoleGrants, registrations, ret, granted, named, store>>

\* assignFixedRole: the lookup FixedRoleGrants[builtInRole] begins
LookupGrants(g) ==
    /\ threads[g].pc = "assignFixedRole"
    /\ threads' = [threads EXCEPT ![g].pc = "readGrants"]
    /\ UNCHANGED <<queryHistory, Cfg, FixedRoles, FixedRoleGrants, registrations, ret, granted, named, store>>

\* assignFixedRole: the lookup ends and the list is searched for the name
LookedUpGrants(g) ==
    /\ threads[g].pc = "readGrants"
    /\ LET th == threads[g]
           b == th.builtInRoles[th.i]
           assignments == IF b \in DOMAIN FixedRoleGrants THEN FixedRoleGrants[b] ELSE <<>>
       IN  threads' = [threads EXCEPT ![g] =
               IF alreadyAssigned(assignments, th.role.Name)
               THEN afterGrant(th, th.i + 1)
               ELSE [pc |-> "storeGrant", op |-> "register", role |-> th.role,
                     builtInRoles |-> th.builtInRoles, i |-> th.i,
                     assignments |-> assignments]]
    /\ UNCHANGED <<queryHistory, Cfg, FixedRoles, FixedRoleGrants, registrations, ret, granted, named, store>>

\* assignFixedRole: the write FixedRoleGrants[builtInRole] = assignments begins
SaveGrants(g) ==
    /\ threads[g].pc = "storeGrant"
    /\ threads' = [threads EXCEPT ![g].pc = "writeGrants"]
    /\ UNCHANGED <<queryHistory, Cfg, FixedRoles, FixedRoleGrants, registrations, ret, granted, named, store>>

\* assignFixedRole: the write ends
SavedGrants(g) ==
    /\ threads[g].pc = "writeGrants"
    /\ LET th == threads[g]
           b == th.builtInRoles[th.i]
           list == Append(th.assignments, th.role.Name)
       IN  /\ FixedRoleGrants' = [k \in DOMAIN FixedRoleGrants \cup {b} |->
                                     IF k = b THEN list ELSE FixedRoleGrants[k]]
           /\ threads' = [threads EXCEPT ![g] = afterGrant(th, th.i + 1)]
    /\ UNCHANGED <<queryHistory, Cfg, FixedRoles, registrations, ret, granted, named, store>>

\* a caller enters getFixedPermissions with the built-in roles of the user
StartRead(g, user) ==
    /\ threads[g].pc = "idle"
    /\ threads' = [threads EXCEPT ![g] =
           [pc |-> "range", op |-> "read", builtinRoles |-> GetUserBuiltInRoles(user),
            roleNames |-> <<>>, permissions |-> <<>>]]
    /\ UNCHANGED <<queryHistory, Cfg, FixedRoles, FixedRoleGrants, registrations, ret, granted, named, store>>

\* getFixedPermissions: the lookup FixedRoleGrants[builtin] begins
FetchGrants(g) ==
    /\ threads[g].pc = "range"
    /\ threads[g].roleNames = <<>>
    /\ threads[g].builtinRoles # <<>>
    /\ threads' = [threads EXCEPT ![g].pc = "fetchingGrants"]
    /\ UNCHANGED <<queryHistory, Cfg, FixedRoles, FixedRoleGrants, registrations, ret, granted, named, store>>

\* getFixedPermissions: the lookup ends with the role names of the built-in role
FetchedGrants(g) ==
    /\ threads[g].pc = "fetchingGrants"
    /\ LET b == Head(threads[g].builtinRoles)
       IN  threads' = [threads EXCEPT ![g] =
               [@ EXCEPT !.pc = "range",
                         !.builtinRoles = Tail(@),
                         !.roleNames = IF b \in DOMAIN FixedRoleGrants
                                       THEN FixedRoleGrants[b] ELSE <<>>]]
    /\ UNCHANGED <<queryHistory, Cfg, FixedRoles, FixedRoleGrants, registrations, ret, granted, named, store>>

\* getFixedPermissions: the lookup FixedRoles[name] begins
FetchRole(g) ==
    /\ threads[g].pc = "range"
    /\ threads[g].roleNames # <<>>
    /\ threads' = [threads EXCEPT ![g].pc = "fetchingRole"]
    /\ UNCHANGED <<queryHistory, Cfg, FixedRoles, FixedRoleGrants, registrations, ret, granted, named, store>>

\* getFixedPermissions: the lookup ends and the permissions of the role are appended
FetchedRole(g) ==
    /\ threads[g].pc = "fetchingRole"
    /\ LET name == Head(threads[g].roleNames)
       IN  threads' = [threads EXCEPT ![g] =
               [@ EXCEPT !.pc = "range",
                         !.roleNames = Tail(@),
                         !.permissions = IF name \in DOMAIN FixedRoles
                                         THEN @ \o FixedRoles[name].Permissions
                                         ELSE @]]
    /\ UNCHANGED <<queryHistory, Cfg, FixedRoles, FixedRoleGrants, registrations, ret, granted, named, store>>

\* getFixedPermissions returns
FinishRead(g) ==
    /\ threads[g].pc = "range"
    /\ threads[g].roleNames = <<>>
    /\ threads[g].builtinRoles = <<>>
    /\ threads' = [threads EXCEPT ![g] =
           [pc |-> "done", op |-> "read", permissions |-> @.permissions]]
    /\ UNCHANGED <<queryHistory, Cfg, FixedRoles, FixedRoleGrants, registrations, ret, granted, named, store>>

\* an unsynchronized map access that overlaps a write is undefined: next to
\* the read taking the map as it was or as it will be, the runtime may stop
\* the process ("fatal error: concurrent map read and map write")
Fatal ==
    /\ Overlap
    /\ threads' = [g \in Goroutines |-> [pc |-> "fatal"]]
    /\ UNCHANGED <<queryHistory, Cfg, FixedRoles, FixedRoleGrants, registrations, ret, granted, named, store>>

\* the users whose reads run next to the registrations
RacingUsers == { User(1, "Viewer", FALSE) }

\* late registrations and reads on two goroutines, in any interleaving
\* the registrations of the lazily loaded modules: those of
\* "fixed:test:test", and "fixed:test2:test2" granted to Viewer as well
RacingRegistrations ==
    LateRegistrations \cup
    { [Role   |-> [Name |-> <<"fixed", "test2", "test2">>, Version |-> 1,
                   Permissions |-> << [Action |-> "users:read", Scope |-> <<"users", "self">>] >>],
       Grants |-> <<"Viewer">>] }

NextConcurrentRegister ==
    \/ \E g \in Goroutines :
           \/ \E r \in RacingRegistrations : StartRegister(g, r.Role, r.Grants)
           \/ LookupRole(g) \/ LookedUpRole(g) \/ SaveRole(g) \/ SavedRole(g)
           \/ LookupGrants(g) \/ LookedUpGrants(g) \/ SaveGrants(g) \/ SavedGrants(g)
           \/ \E u \in RacingUsers : StartRead(g, u)
           \/ FetchGrants(g) \/ FetchedGrants(g) \/ FetchRole(g) \/ FetchedRole(g)
           \/ FinishRead(g)
    \/ Fatal

\* start-up has applied its registrations
InitConcurrentRegister ==
    /\ InitConcurrentReads
    /\ store = NoStoredPermissions

SpecConcurrentRegister == InitConcurrentRegister /\ [][NextConcurrentRegister]_vars

\* C24: whenever a goroutine is inside a write of FixedRoles or of
\* FixedRoleGrants, no other goroutine is inside a read or a write of that map.
C24_NoAccessOverlapsWrite == ~Overlap

\* C25: when two registerFixedRole calls on the same role name, with versions
\* v1 < v2, have run at the same time and both have returned, the registry
\* holds the role of the call with v2.
C25_GreaterVersionWinsConcurrently ==
    \A g \in Goroutines, h \in Goroutines :
        (/\ threads[g].pc = "done" /\ threads[g].op = "register"
         /\ threads[h].pc = "done" /\ threads[h].op = "register"
         /\ threads[g].role.Name = threads[h].role.Name
         /\ threads[g].role.Version < threads[h].role.Version)
        => FixedRoles[threads[g].role.Name] = threads[h].role


-----------------------------------------------------------------------------
\* Usage metrics

\* C27: the metric "stats.oss.accesscontrol.enabled.count" is 1 when the
\* configuration is present and its accesscontrol flag is true, and 0 when
\* the configuration is absent, the flag is absent or the flag is false.
C27_MetricIsOneIffEnabled ==
    ret.op = "metrics"
        => ret.metrics["stats.oss.accesscontrol.enabled.count"]
               = (IF Enabled(Cfg) THEN 1 ELSE 0)


-----------------------------------------------------------------------------
\* Register calls in another order

\* the register calls that are reordered: both role names, the lowest and
\* the greatest version, granted to Viewer or to Editor and Grafana Admin
ReorderedCalls ==
    { r \in RoleRegistrations :
          /\ r.Role.Version \in {1, MaxVersion}
          /\ r.Role.Permissions = << [Action |-> "users:read", Scope |-> <<"users", "self">>] >>
          /\ r.Grants \in { <<"Viewer">>, <<"Editor", RoleGrafanaAdmin>> } }

\* the registries the calls start from: the empty one, and one that already
\* grants "custom:test:test" to Viewer
StartRegistries ==
    LET empty == [roles |-> [n \in {} |-> 0], grants |-> [b \in {} |-> <<>>]]
    IN  { empty,
          registerFixedRole(empty,
                            [Name |-> <<"custom", "test", "test">>, Version |-> 1,
                             Permissions |-> << [Action |-> "users:create", Scope |-> <<"users", "*">>] >>],
                            <<"Viewer">>) }

\* one registerFixedRole call; ret keeps the registry the calls started from
\* and the calls made so far, in the order they were made
RegisterCall(r) ==
    LET after == registerFixedRole(Registry, r.Role, r.Grants)
    IN  /\ Len(ret.calls) <= MaxQueue
        /\ FixedRoles' = after.roles
        /\ FixedRoleGrants' = after.grants
        /\ ret' = [ret EXCEPT !.op = "register", !.calls = Append(@, r)]
        /\ granted' = granted \cup asked(r.Role, r.Grants)
        /\ named' = named \cup {r.Role.Name}
        /\ UNCHANGED <<queryHistory, Cfg, registrations, store, threads>>

NextReorder ==
    \E r \in ReorderedCalls : RegisterCall(r)

InitReorder ==
    /\ Cfg = [isNil |-> FALSE, FeatureToggles |-> NoToggles]
    /\ \E from \in StartRegistries :
           /\ FixedRoles = from.roles
           /\ FixedRoleGrants = from.grants
           /\ ret = [op |-> "init", err |-> "nil", from |-> from, calls |-> <<>>]
    /\ registrations = <<>>
    /\ granted = {}
    /\ named = {}
    /\ store = NoStoredPermissions
    /\ threads = [t \in Goroutines |-> Idle]
    /\ queryHistory = {}

SpecReorder == InitReorder /\ [][NextReorder]_vars

\* the orders of n calls
Orders(n) ==
    { f \in [1..n -> 1..n] : \A i \in 1..n, j \in 1..n : f[i] = f[j] => i = j }

Reorder(calls, f) ==
    [i \in 1..Len(calls) |-> calls[f[i]]]

\* C28: the set of (built-in role, role name) grant pairs after a sequence
\* of register calls is the set the same calls yield from the same initial
\* registry in any other order.
C28_GrantPairsOrderIndependent ==
    \A f \in Orders(Len(ret.calls)) :
        GrantPairs(registerAll(ret.from, Reorder(ret.calls, f)).grants)
            = GrantPairs(FixedRoleGrants)

\* two calls granted two role names to Viewer, on top of a third one: the
\* order of the calls shows in the list, and a call repeated a grant
C28_Witness ==
    /\ Len(ret.calls) = MaxQueue + 1
    /\ "Viewer" \in DOMAIN FixedRoleGrants
    /\ Len(FixedRoleGrants["Viewer"]) = 2
    /\ FixedRoleGrants["Viewer"][1] = <<"fixed", "test", "test">>
    /\ ret.from.grants = [b \in {} |-> <<>>]
    /\ \E i \in 1..Len(ret.calls), j \in 1..Len(ret.calls) :
           /\ i < j
           /\ ret.calls[i].Role.Name = <<"custom", "test", "test">>
           /\ ret.calls[j].Role.Name = <<"fixed", "test", "test">>
           /\ ret.calls[i].Grants = <<"Viewer">>
           /\ ret.calls[j].Grants = <<"Viewer">>


-----------------------------------------------------------------------------
\* Registry validity

\* C29: from an empty registry, after any sequence of declare and apply
\* calls every stored role name carries the prefix "fixed" and every key of
\* the grant map is Viewer, Editor, Admin or Grafana Admin.
C29_RegistryValid ==
    /\ \A name \in DOMAIN FixedRoles :
           /\ ValidateFixedRole([Name |-> name]) = "nil"
           /\ FixedRoles[name].Name = name
    /\ \A builtInRole \in DOMAIN FixedRoleGrants :
           builtInRole \in {"Viewer", "Editor", "Admin", RoleGrafanaAdmin}

\* the registry holds two roles granted to Viewer, and a declare call has
\* just been refused
C29_Witness ==
    /\ ret.op = "declare"
    /\ ret.err # "nil"
    /\ DOMAIN FixedRoles = { <<"fixed", "test", "test">>, <<"fixed", "test2", "test2">> }
    /\ DOMAIN FixedRoleGrants = {"Viewer"}


-----------------------------------------------------------------------------
\* The history of a stored role

\* the two bodies of "fixed:test:test" at a version, granted to Viewer
Body(version, permissions) ==
    [Role   |-> [Name |-> <<"fixed", "test", "test">>, Version |-> version,
                 Permissions |-> permissions],
     Grants |-> <<"Viewer">>]

ReadSelf == << [Action |-> "users:read", Scope |-> <<"users", "self">>] >>

CreateAny == << [Action |-> "users:create", Scope |-> <<"users", "*">>] >>

\* the register calls made one after the other: every version of
\* "fixed:test:test" with either body, and "custom:test:test"
HistoryCalls ==
    { Body(v, p) : v \in Versions, p \in {ReadSelf, CreateAny} } \cup
    { r \in RoleRegistrations :
          /\ r.Role.Name = <<"custom", "test", "test">>
          /\ r.Role.Version = 1
          /\ r.Role.Permissions = ReadSelf
          /\ r.Grants = <<"Viewer">> }

\* the queues declared before start-up
DeclaredQueues ==
    { << Body(1, ReadSelf), Body(MaxVersion, CreateAny) >>,
      << Body(MaxVersion, ReadSelf) >> }

\* RegisterFixedRoles, the registrations it made added to the calls so far
ApplyCall ==
    LET after == RegisterFixedRoles(Cfg, Registry, registrations)
    IN  /\ Len(ret.calls) + Len(registrations) <= MaxQueue + 1
        /\ FixedRoles' = after.roles
        /\ FixedRoleGrants' = after.grants
        /\ ret' = [ret EXCEPT !.op = "apply",
                              !.calls = IF IsDisabled(Cfg) THEN @ ELSE @ \o registrations]
        /\ granted' = IF IsDisabled(Cfg)
                      THEN granted
                      ELSE granted \cup askedAll(registrations)
        /\ named' = IF IsDisabled(Cfg)
                    THEN named
                    ELSE named \cup { registrations[i].Role.Name :
                                          i \in 1..Len(registrations) }
        /\ UNCHANGED <<queryHistory, Cfg, registrations, store, threads>>

NextHistory ==
    \/ \E r \in HistoryCalls : RegisterCall(r)
    \/ ApplyCall

InitHistory ==
    /\ Cfg \in { c \in Configurations : ~c.isNil /\ c.FeatureToggles \in {NoToggles, [t \in {"accesscontrol"} |-> TRUE]} }
    /\ FixedRoles = [n \in {} |-> 0]
    /\ FixedRoleGrants = [b \in {} |-> <<>>]
    /\ registrations \in DeclaredQueues
    /\ ret = [op |-> "init", err |-> "nil",
              from |-> [roles |-> FixedRoles, grants |-> FixedRoleGrants],
              calls |-> <<>>]
    /\ granted = {}
    /\ named = {}
    /\ store = NoStoredPermissions
    /\ threads = [t \in Goroutines |-> Idle]
    /\ queryHistory = {}

SpecHistory == InitHistory /\ [][NextHistory]_vars

\* the positions of the registrations of a name among the calls
CallsOf(calls, name) ==
    { i \in 1..Len(calls) : calls[i].Role.Name = name }

\* the greatest version registered for a name
GreatestVersion(calls, name) ==
    CHOOSE v \in { calls[i].Role.Version : i \in CallsOf(calls, name) } :
        \A i \in CallsOf(calls, name) : calls[i].Role.Version <= v

\* the earliest registration of a name that carried its greatest version
EarliestGreatest(calls, name) ==
    LET carriers == { i \in CallsOf(calls, name) :
                          calls[i].Role.Version = GreatestVersion(calls, name) }
        first == CHOOSE i \in carriers : \A j \in carriers : i <= j
    IN  calls[first].Role

StoredIsEarliestGreatest ==
    /\ DOMAIN FixedRoles = { ret.calls[i].Role.Name : i \in 1..Len(ret.calls) }
    /\ \A name \in DOMAIN FixedRoles :
           /\ FixedRoles[name].Version = GreatestVersion(ret.calls, name)
           /\ FixedRoles[name] = EarliestGreatest(ret.calls, name)

VersionsNeverDecrease ==
    \A name \in DOMAIN FixedRoles :
        /\ name \in DOMAIN FixedRoles'
        /\ FixedRoles'[name].Version >= FixedRoles[name].Version

\* C30: across any sequence of register and apply calls, the version stored
\* for a role name never decreases and is the greatest version ever
\* registered for that name, and the stored body is the body of the
\* earliest registration that carried that version.
C30_StoredIsEarliestGreatestVersion ==
    /\ []StoredIsEarliestGreatest
    /\ [][VersionsNeverDecrease]_vars

\* a register call stored the greatest version, then apply registered a
\* queue holding a lower version and the greatest version with another body:
\* the role stored is still the one of the register call
C30_Witness ==
    /\ ret.op = "apply"
    /\ ~IsDisabled(Cfg)
    /\ Len(ret.calls) = MaxQueue + 1
    /\ \E i \in 1..Len(ret.calls), k \in 1..Len(ret.calls), j \in 1..Len(ret.calls) :
           /\ i < k
           /\ k < j
           /\ ret.calls[i].Role.Name = ret.calls[k].Role.Name
           /\ ret.calls[i].Role.Name = ret.calls[j].Role.Name
           /\ ret.calls[i].Role.Version = MaxVersion
           /\ ret.calls[k].Role.Version < MaxVersion
           /\ ret.calls[j].Role.Version = MaxVersion
           /\ ret.calls[i].Role.Permissions # ret.calls[j].Role.Permissions
           /\ FixedRoles[ret.calls[i].Role.Name] = ret.calls[i].Role


-----------------------------------------------------------------------------
\* Referential integrity of the grants

\* the role names getFixedPermissions skips for lack of a stored role
SkippedNames(ac) ==
    { pair[2] : pair \in { q \in GrantPairs(ac.grants) : q[2] \notin DOMAIN ac.roles } }

\* C31: from an empty registry, after any sequence of register and apply
\* calls every role name in the grant list of a built-in role is a key of
\* the role map, so getFixedPermissions skips no granted name.
C31_GrantedNamesAreStored ==
    /\ \A builtInRole \in DOMAIN FixedRoleGrants :
           \A i \in 1..Len(FixedRoleGrants[builtInRole]) :
               FixedRoleGrants[builtInRole][i] \in DOMAIN FixedRoles
    /\ SkippedNames(Registry) = {}

\* apply and register calls granted two role names to Viewer, one of the
\* calls carrying a version that was not saved
C31_Witness ==
    /\ Len(ret.calls) = MaxQueue + 1
    /\ "Viewer" \in DOMAIN FixedRoleGrants
    /\ Len(FixedRoleGrants["Viewer"]) = 2
    /\ \E i \in 1..Len(ret.calls) :
           ret.calls[i].Role.Version < FixedRoles[ret.calls[i].Role.Name].Version
    /\ \E i \in 1..Len(ret.calls) :
           /\ ret.calls[i].Role.Name = <<"custom", "test", "test">>
           /\ ret.calls[i].Role.Name \in DOMAIN FixedRoles


-----------------------------------------------------------------------------
\* Concurrent grants

\* the position of a built-in role in the grants of a finished register call
Grants(th, builtInRole) ==
    \E i \in 1..Len(th.builtInRoles) : th.builtInRoles[i] = builtInRole

\* C32: when two concurrent register calls that grant roles to the same
\* built-in role have both completed, the grant list of that built-in role
\* holds each granted role name exactly once.
C32_ConcurrentGrantsKeptOnce ==
    \A g \in Goroutines, h \in Goroutines :
        (/\ g # h
         /\ threads[g].pc = "done" /\ threads[g].op = "register"
         /\ threads[h].pc = "done" /\ threads[h].op = "register")
        => \A builtInRole \in {"Viewer", "Editor", "Admin", RoleGrafanaAdmin} :
               (Grants(threads[g], builtInRole) /\ Grants(threads[h], builtInRole))
               => /\ builtInRole \in DOMAIN FixedRoleGrants
                  /\ \A name \in {threads[g].role.Name, threads[h].role.Name} :
                         Cardinality({ i \in 1..Len(FixedRoleGrants[builtInRole]) :
                                           FixedRoleGrants[builtInRole][i] = name }) = 1


-----------------------------------------------------------------------------
\* The query history

\* the most rows the query_history table holds
MaxRows == 2

\* the uids util.GenerateShortUID hands out, the comments of the requests
\* and the users that keep a query history
Uids == {"uid1", "uid2", "uid3"}

Comments == {"first", "second"}

QueryHistoryUsers == { User(1, "Viewer", FALSE), User(2, "Editor", FALSE) }

\* the request bodies of an update: one that web.Bind refuses, and one per
\* comment
Bodies ==
    { [valid |-> FALSE, cmd |-> [Comment |-> ""]] } \cup
    { [valid |-> TRUE, cmd |-> [Comment |-> c]] : c \in Comments }

\* the request bodies of a create
CreateBodies ==
    { [valid |-> FALSE, cmd |-> [Queries |-> "", DataSourceUid |-> ""]],
      [valid |-> TRUE, cmd |-> [Queries |-> "up", DataSourceUid |-> "prometheus"]] }

\* a pointer to no row
NilQuery == [isNil |-> TRUE]

\* web.Bind: the command read from the body, or an error and the command
\* left as it was
Bind(body) ==
    IF body.valid
    THEN [cmd |-> body.cmd, err |-> "nil"]
    ELSE [cmd |-> body.cmd, err |-> "ErrBadRequest"]

\* CreateQueryHistory: a row with a new uid and the next free id, created
\* by the user in the user's organisation, with an empty comment
CreateQueryHistory(table, user, uid, queries, datasourceUid) ==
    LET id == CHOOSE i \in 1..(Cardinality(table) + 1) :
                  /\ \A row \in table : row.Id # i
                  /\ \A j \in 1..(Cardinality(table) + 1) :
                         (\A row \in table : row.Id # j) => i <= j
    IN  table \cup { [Id |-> id, Uid |-> uid, OrgId |-> user.OrgId,
                      CreatedBy |-> user.UserId, Queries |-> queries,
                      DatasourceUid |-> datasourceUid, Comment |-> ""] }

\* the rows WHERE org_id = ? AND created_by = ? AND uid = ?
RowsOf(table, user, queryId) ==
    { row \in table : /\ row.OrgId = user.OrgId
                      /\ row.CreatedBy = user.UserId
                      /\ row.Uid = queryId }

\* GetQueryInQueryHistoryByUid: the row, or ErrQueryNotFound and no row
GetQueryInQueryHistoryByUid(table, user, queryId) ==
    IF RowsOf(table, user, queryId) = {}
    THEN [query |-> NilQuery, err |-> "ErrQueryNotFound"]
    ELSE [query |-> [isNil |-> FALSE, row |-> CHOOSE row \in RowsOf(table, user, queryId) : TRUE],
          err |-> "nil"]

\* DeleteQueryFromQueryHistory: the table without the rows, or ErrQueryNotFound
DeleteQueryFromQueryHistory(table, user, queryId) ==
    IF RowsOf(table, user, queryId) = {}
    THEN [table |-> table, err |-> "ErrQueryNotFound"]
    ELSE [table |-> table \ RowsOf(table, user, queryId), err |-> "nil"]

\* UpdateComment: query.Comment = comment through the pointer, which
\* panics on a nil pointer, then the row of query.Id is updated
UpdateComment(table, user, query, comment) ==
    IF query.isNil
    THEN [table |-> table, err |-> "nil", panic |-> TRUE]
    ELSE [table |-> { IF row.Id = query.row.Id
                      THEN [query.row EXCEPT !.Comment = comment]
                      ELSE row : row \in table },
          err |-> "nil", panic |-> FALSE]

\* response.Error and response.Success
Error(status, message) == [status |-> status, message |-> message]

Success(message) == [status |-> 200, message |-> message]

\* the handler left by a panic, without a response
NoResponse == [status |-> 0, message |-> ""]

\* updateQueryInQueryHistory: the lookup's error is assigned and not read,
\* the body is bound, and UpdateComment is called with what the lookup
\* returned; a panic leaves the handler without a response
updateQueryInQueryHistory(table, user, queryId, body) ==
    LET found == GetQueryInQueryHistoryByUid(table, user, queryId)
        bound == Bind(body)
        updated == UpdateComment(table, user, found.query, bound.cmd.Comment)
    IN  IF bound.err # "nil"
        THEN [table |-> table, lookup |-> found.err, invoked |-> FALSE, panic |-> FALSE,
              response |-> Error(400, "bad request data")]
        ELSE IF updated.panic
        THEN [table |-> updated.table, lookup |-> found.err, invoked |-> TRUE, panic |-> TRUE,
              response |-> NoResponse]
        ELSE IF updated.err # "nil"
        THEN [table |-> updated.table, lookup |-> found.err, invoked |-> TRUE, panic |-> FALSE,
              response |-> Error(500, "Failed to update comment in query history")]
        ELSE [table |-> updated.table, lookup |-> found.err, invoked |-> TRUE, panic |-> FALSE,
              response |-> Success("Query comment updated")]

\* createQueryHistory: the body is bound and the query is stored
createQueryHistory(table, user, uid, body) ==
    LET bound == Bind(body)
    IN  IF bound.err # "nil"
        THEN [table |-> table, response |-> Error(400, "bad request data")]
        ELSE [table |-> CreateQueryHistory(table, user, uid, bound.cmd.Queries,
                                           bound.cmd.DataSourceUid),
              response |-> Success("Query created")]

\* deleteQueryFromQueryHistory
deleteQueryFromQueryHistory(table, user, queryId) ==
    LET deleted == DeleteQueryFromQueryHistory(table, user, queryId)
    IN  IF deleted.err # "nil"
        THEN [table |-> table,
              response |-> Error(500, "Failed to delete query from history")]
        ELSE [table |-> deleted.table, response |-> Success("Query deleted")]

\* POST: a signed-in user adds a query
CreateQuery(user, uid, body) ==
    LET after == createQueryHistory(queryHistory, user, uid, body)
    IN  /\ Cardinality(queryHistory) < MaxRows
        /\ \A row \in queryHistory : row.Uid # uid
        /\ queryHistory' = after.table
        /\ ret' = [op |-> "createQuery", err |-> "nil", response |-> after.response]
        /\ UNCHANGED <<Cfg, FixedRoles, FixedRoleGrants, registrations, granted, named,
                       store, threads>>

\* DELETE :uid
DeleteQuery(user, queryId) ==
    LET after == deleteQueryFromQueryHistory(queryHistory, user, queryId)
    IN  /\ queryHistory' = after.table
        /\ ret' = [op |-> "deleteQuery", err |-> "nil", response |-> after.response]
        /\ UNCHANGED <<Cfg, FixedRoles, FixedRoleGrants, registrations, granted, named,
                       store, threads>>

\* PATCH :uid; ret keeps what the lookup returned, whether UpdateComment
\* was invoked and whether a row changed
UpdateQuery(user, queryId, body) ==
    LET after == updateQueryInQueryHistory(queryHistory, user, queryId, body)
    IN  /\ queryHistory' = after.table
        /\ ret' = [op |-> "updateQuery", err |-> "nil", response |-> after.response,
                   lookup |-> after.lookup, invoked |-> after.invoked,
                   panic |-> after.panic, modified |-> after.table # queryHistory]
        /\ UNCHANGED <<Cfg, FixedRoles, FixedRoleGrants, registrations, granted, named,
                       store, threads>>

NextQueryHistory ==
    \/ \E user \in QueryHistoryUsers, uid \in Uids, body \in CreateBodies :
           CreateQuery(user, uid, body)
    \/ \E user \in QueryHistoryUsers, uid \in Uids : DeleteQuery(user, uid)
    \/ \E user \in QueryHistoryUsers, uid \in Uids, body \in Bodies :
           UpdateQuery(user, uid, body)

SpecQueryHistory == Init /\ [][NextQueryHistory]_vars

\* C33: when the lookup of the query by uid for the signed-in user fails,
\* the update handler returns an error response, UpdateComment is not
\* invoked and no stored query is modified.
C33_FailedLookupUpdatesNothing ==
    (ret.op = "updateQuery" /\ ret.lookup # "nil")
        => /\ ret.response # NoResponse
           /\ ret.response.status >= 400
           /\ ~ret.invoked
           /\ ~ret.modified

====
